---- MODULE Spec2Model ----
(***************************************************************************)
(* A model of falco's analysis modules (src/src/Module.cpp) and of the     *)
(* configuration loader (src/unnamed/part_000, FalcoConfig).               *)
(*                                                                         *)
(* Doubles are modelled as exact rationals with the IEEE special values    *)
(* NaN and +infinity; size_t values as naturals (wrap-around is modelled   *)
(* where a subtraction can go below zero).                                  *)
(***************************************************************************)
EXTENDS Integers, Sequences, FiniteSets, TLC

VARIABLES
  \* ---- one Module instance (class Module and its subclasses) ----
  kind,          \* which subclass the instance is
  stats,         \* the FastqStats snapshot handed to summarize (read-only)
  grade_warn,    \* the subclass' warn threshold (set by its constructor)
  grade_error,   \* the subclass' error threshold (set by its constructor)
  summarized,    \* Module::summarized
  grade,         \* Module::grade
  html_data,     \* Module::html_data
  summary,       \* the subclass' derived fields
  os,            \* the output stream write / write_short_summary write to
  pc,            \* position inside the running Module::summarize call
  gi,            \* loop index of the running make_grade scan
  trace,         \* phases completed by the running / last summarize call
  call,          \* the last member function entered
  err,           \* outcome of the last call: "none" or the exception thrown
  pre,           \* <<summary, grade, html_data>> when summarize was entered
                 \* on an already summarized module, else <<>>
  ncalls,        \* number of summarize calls entered so far
  \* ---- one call of a function or member function taken on its own ----
  args,          \* the arguments (and the object's state at entry)
  frame,         \* the locals while the call runs, the result once it returned
  at             \* position of the call: "entry", a loop position, "returned"

varsModule == <<kind, stats, grade_warn, grade_error, summarized, grade,
                html_data, summary, os, pc, gi, trace, call, err, pre, ncalls>>

varsCall == <<args, frame, at>>

vars == <<varsModule, varsCall>>

-----------------------------------------------------------------------------
(* Bounds of the model *)

\* summarize calls entered on one module instance
MaxCalls == 2
\* write / write_short_summary calls that reach the stream
MaxWrites == 1
\* read positions of the snapshots of the lifecycle specification
MaxPos == 2

-----------------------------------------------------------------------------
(* Generic helpers *)

Max(a, b) == IF a >= b THEN a ELSE b

RECURSIVE GCD(_, _)
GCD(a, b) == IF b = 0 THEN a ELSE GCD(b, a % b)

Abs(x) == IF x < 0 THEN -x ELSE x

RECURSIVE SumSeq(_)
SumSeq(s) == IF s = <<>> THEN 0 ELSE Head(s) + SumSeq(Tail(s))

\* the elements of a finite set of integers in ascending order (std::sort)
RECURSIVE SortedSeq(_)
SortedSeq(S) ==
  IF S = {} THEN <<>>
  ELSE LET m == CHOOSE x \in S : \A y \in S : x <= y
       IN <<m>> \o SortedSeq(S \ {m})

-----------------------------------------------------------------------------
(* double: exact rationals plus NaN and +inf *)

NaN == [cls |-> "nan", num |-> 0, den |-> 1]
PInf == [cls |-> "inf", num |-> 0, den |-> 1]

\* the finite double n/d, d > 0, in lowest terms
Fin(n, d) ==
  LET g == GCD(Abs(n), d)
  IN [cls |-> "fin", num |-> n \div g, den |-> d \div g]

\* static_cast<double>(a) / b for naturals a, b: 0/0 is NaN, a/0 is +inf
DivNat(a, b) ==
  IF b = 0 THEN (IF a = 0 THEN NaN ELSE PInf) ELSE Fin(a, b)

\* x + y, over the least common denominator
DAdd(x, y) ==
  IF x.cls = "nan" \/ y.cls = "nan" THEN NaN
  ELSE IF x.cls = "inf" \/ y.cls = "inf" THEN PInf
  ELSE LET g == GCD(x.den, y.den)
       IN Fin(x.num * (y.den \div g) + y.num * (x.den \div g),
              (x.den \div g) * y.den)

\* x - y where y is finite or NaN
DSub(x, y) ==
  IF x.cls = "nan" \/ y.cls = "nan" THEN NaN
  ELSE IF x.cls = "inf" THEN PInf
  ELSE Fin(x.num * y.den - y.num * x.den, x.den * y.den)

\* x * k and x / k for a natural k > 0
DScale(x, k) == IF x.cls = "fin" THEN Fin(x.num * k, x.den) ELSE x

\* x / y for finite y > 0
DDiv(x, y) ==
  IF x.cls = "nan" \/ y.cls = "nan" THEN NaN
  ELSE IF y.num = 0 THEN (IF x.cls = "fin" /\ x.num = 0 THEN NaN ELSE PInf)
  ELSE IF x.cls = "inf" THEN PInf
  ELSE Fin(x.num * y.den, x.den * y.num)

\* the double of an integer
IntD(k) == [cls |-> "fin", num |-> k, den |-> 1]

DNeg(x) == IF x.cls = "fin" THEN [x EXCEPT !.num = -x.num] ELSE x

\* x <= y, x > y, x == y on doubles (y finite); every comparison with NaN
\* is false
DLeq(x, y) ==
  x.cls = "fin" /\ y.cls = "fin" /\ x.num * y.den <= y.num * x.den
DGt(x, y) ==
  \/ x.cls = "inf" /\ y.cls = "fin"
  \/ x.cls = "fin" /\ y.cls = "fin" /\ x.num * y.den > y.num * x.den
DEq(x, y) ==
  x.cls = "fin" /\ y.cls = "fin" /\ x.num * y.den = y.num * x.den

\* truncation of a finite non-negative double to size_t
Trunc(x) == x.num \div x.den

-----------------------------------------------------------------------------
(* Grades *)

Grades == {"pass", "warn", "fail"}

Rank(g) == CASE g = "pass" -> 0 [] g = "warn" -> 1 [] g = "fail" -> 2

\* toupper of a grade string
toupper(s) ==
  CASE s = "pass" -> "PASS" [] s = "warn" -> "WARN" [] s = "fail" -> "FAIL"

-----------------------------------------------------------------------------
(* FastQC extrapolation of counts to the full file size *)

\* (a - b) < c in size_t arithmetic: a - b wraps to a huge value when a < b
SizeSubLess(a, b, c) == a >= b /\ a - b < c

\* the loop of get_corrected_count: p_not_seeing = pn / pd before iteration i
RECURSIVE PNotSeeing(_, _, _, _, _, _, _)
PNotSeeing(i, pn, pd, count_at_limit, num_reads, dup_level, num_obs) ==
  IF i >= count_at_limit THEN Fin(pn, pd)
  ELSE IF num_reads - i <= 0 \/ num_reads - i < dup_level
       THEN PInf   \* size_t wrap-around of the factor: p grows without bound
  ELSE LET qn == pn * ((num_reads - i) - dup_level)
           qd == pd * (num_reads - i)
       IN \* limit_of_caring = 1 - num_obs/(num_obs + 0.01)
          \*                 = 1 / (100*num_obs + 1)
          IF qn * (100 * num_obs + 1) < qd
          THEN Fin(0, 1)
          ELSE PNotSeeing(i + 1, qn, qd, count_at_limit, num_reads,
                          dup_level, num_obs)

get_corrected_count_one_bailout(count_at_limit, num_reads, dup_level, num_obs) ==
  IF count_at_limit = num_reads THEN IntD(num_obs)
  ELSE LET p == PNotSeeing(0, 1, 1, count_at_limit, num_reads, dup_level,
                           num_obs)
       IN IF p.cls = "inf" THEN Fin(0, 1)
          ELSE DivNat(num_obs * p.den, p.den - p.num)

get_corrected_count(count_at_limit, num_reads, dup_level, num_obs) ==
  IF count_at_limit = num_reads THEN IntD(num_obs)
  ELSE IF SizeSubLess(num_reads, num_obs, count_at_limit) THEN IntD(num_obs)
  ELSE LET p == PNotSeeing(0, 1, 1, count_at_limit, num_reads, dup_level,
                           num_obs)
       IN IF p.cls = "inf" THEN Fin(0, 1)   \* num_obs / (1 - huge)
          ELSE DivNat(num_obs * p.den, p.den - p.num)

-----------------------------------------------------------------------------
(* ModuleSequenceDuplicationLevels *)

NumDupSlots == 16

\* the bin of a duplication level
DupSlot(dup_level) ==
  IF dup_level >= 10000 THEN 15
  ELSE IF dup_level >= 5000 THEN 14
  ELSE IF dup_level >= 1000 THEN 13
  ELSE IF dup_level >= 500 THEN 12
  ELSE IF dup_level >= 100 THEN 11
  ELSE IF dup_level >= 50 THEN 10
  ELSE IF dup_level >= 10 THEN 9
  ELSE dup_level - 1

\* the state a ModuleSequenceDuplicationLevels is constructed with.
\* counts_are_size_t: whether the mapped type of counts_by_freq is size_t (a
\* corrected count is truncated when stored) or double; the declaration is in
\* Module.hpp, so both builds are modelled.
DupConstructed(counts_are_size_t) ==
  [counts_are_size_t |-> counts_are_size_t,
   counts_by_freq |-> <<>>,
   percentage_deduplicated |-> [i \in 0..(NumDupSlots - 1) |-> IntD(0)],
   percentage_total |-> [i \in 0..(NumDupSlots - 1) |-> IntD(0)],
   seq_total |-> IntD(0),
   seq_dedup |-> IntD(0),
   total_deduplicated_pct |-> IntD(0)]

\* a value as counts_by_freq holds it
StoreCount(x, counts_are_size_t) ==
  IF counts_are_size_t /\ x.cls = "fin" THEN IntD(Trunc(x)) ELSE x

\* first loop: counts_by_freq[v.second]++ for every tracked sequence
CountByFreq(counts_by_freq, sequence_count) ==
  LET old == DOMAIN counts_by_freq
      seen == {sequence_count[q] : q \in DOMAIN sequence_count}
      Nr(r) == Cardinality({q \in DOMAIN sequence_count : sequence_count[q] = r})
  IN [r \in old \cup seen |->
        DAdd(IF r \in old THEN counts_by_freq[r] ELSE IntD(0), IntD(Nr(r)))]

\* second loop: every class replaced by its corrected count
CorrectCounts(counts_by_freq, st, counts_are_size_t) ==
  [r \in DOMAIN counts_by_freq |->
     StoreCount(get_corrected_count(st.count_at_limit, st.num_reads, r,
                                    Trunc(counts_by_freq[r])),
                counts_are_size_t)]

\* one iteration of the third loop, on the class (dup_level, count)
BinClassUnweighted(acc, dup_level, count) ==
  LET slot == DupSlot(dup_level)
  IN [acc EXCEPT
        !.percentage_deduplicated[slot] = DAdd(@, count),
        !.percentage_total[slot] = DAdd(@, count),
        !.seq_total = DAdd(@, DScale(count, dup_level)),
        !.seq_dedup = DAdd(@, count)]

BinClass(acc, dup_level, count) ==
  LET slot == DupSlot(dup_level)
  IN [acc EXCEPT
        !.percentage_deduplicated[slot] = DAdd(@, count),
        !.percentage_total[slot] = DAdd(@, DScale(count, dup_level)),
        !.seq_total = DAdd(@, DScale(count, dup_level)),
        !.seq_dedup = DAdd(@, count)]

RECURSIVE BinClasses(_, _)
BinClasses(acc, levels) ==
  IF levels = {} THEN acc
  ELSE LET r == CHOOSE x \in levels : \A y \in levels : x <= y
       IN BinClasses(BinClass(acc, r, acc.counts_by_freq[r]), levels \ {r})

\* ModuleSequenceDuplicationLevels::summarize_module on the module state sm
DupSummarize(sm, st) ==
  LET counted == CountByFreq(sm.counts_by_freq, st.sequence_count)
      corrected == CorrectCounts(counted, st, sm.counts_are_size_t)
      start == [sm EXCEPT !.seq_total = IntD(0), !.seq_dedup = IntD(0),
                          !.counts_by_freq = corrected]
      binned == BinClasses(start, DOMAIN corrected)
  IN [binned EXCEPT
        !.total_deduplicated_pct =
           DDiv(DScale(binned.seq_dedup, 100), binned.seq_total),
        !.percentage_deduplicated =
           [i \in 0..(NumDupSlots - 1) |->
              DDiv(DScale(binned.percentage_deduplicated[i], 100),
                   binned.seq_dedup)],
        !.percentage_total =
           [i \in 0..(NumDupSlots - 1) |->
              DDiv(DScale(binned.percentage_total[i], 100),
                   binned.seq_total)]]

\* ModuleSequenceDuplicationLevels::make_grade
DupMakeGrade(g, sm, warn, error) ==
  IF DLeq(sm.total_deduplicated_pct, error) THEN "fail"
  ELSE IF DLeq(sm.total_deduplicated_pct, warn) THEN "warn"
  ELSE g

\* sum of the 16 entries of a percentage array
RECURSIVE SumSlots(_, _)
SumSlots(a, i) ==
  IF i >= NumDupSlots THEN IntD(0) ELSE DAdd(a[i], SumSlots(a, i + 1))

-----------------------------------------------------------------------------
(* ModulePerTileSequenceQuality *)

TileConstructed == [max_read_length |-> 0, tile_position_quality |-> <<>>,
                    tiles_sorted |-> <<>>]

\* ModulePerTileSequenceQuality::summarize_module
TileSummarize(sm, st) ==
  LET tiles == DOMAIN st.tile_position_quality
      n == st.max_read_length
      RECURSIVE SumOver(_, _, _)
      SumOver(f, T, i) ==
        IF T = {} THEN 0
        ELSE LET t == CHOOSE x \in T : TRUE
             IN f[t][i] + SumOver(f, T \ {t}, i)
      position_counts == [i \in 1..n |-> SumOver(st.tile_position_count, tiles, i)]
      mean_in_base ==
        [i \in 1..n |->
           DivNat(SumOver(st.tile_position_quality, tiles, i), position_counts[i])]
  IN [max_read_length |-> n,
      tile_position_quality |->
        [t \in tiles |->
           [i \in 1..Len(st.tile_position_quality[t]) |->
              DSub(DivNat(st.tile_position_quality[t][i],
                          st.tile_position_count[t][i]),
                   mean_in_base[i])]],
      tiles_sorted |-> SortedSeq(tiles)]

\* the deviations in the order make_grade visits them: the tiles in the
\* iteration order of the unordered_map (tile_order; the snapshots of the
\* model fix it to ascending tile number), the positions ascending
TileCells(sm, st) ==
  LET RECURSIVE Cat(_)
      Cat(order) ==
        IF order = <<>> THEN <<>>
        ELSE sm.tile_position_quality[Head(order)] \o Cat(Tail(order))
  IN Cat(st.tile_order)

\* one iteration of the loop of ModulePerTileSequenceQuality::make_grade
TileGradeCellNotSticky(g, v, warn, error) ==
  IF DLeq(v, DNeg(error)) THEN "fail"
  ELSE IF DLeq(v, DNeg(warn)) THEN "warn"
  ELSE g

TileGradeCell(g, v, warn, error) ==
  IF g # "fail"
  THEN IF DLeq(v, DNeg(error)) THEN "fail"
       ELSE IF DLeq(v, DNeg(warn)) THEN "warn"
       ELSE g
  ELSE g

-----------------------------------------------------------------------------
(* ModulePerBaseNContent *)

\* the dense-storage limit FastqStats::kNumBases
kNumBases == 500

\* element i (0-based) of a zero-initialised counter array
At(arr, i) == IF i < Len(arr) THEN arr[i + 1] ELSE 0

\* element i (0-based) of a vector; beyond its end the read is out of range
\* and yields whatever the memory holds
AtOrBeyond(arr, i, beyond) == IF i < Len(arr) THEN arr[i + 1] ELSE beyond

NContentConstructed == [num_bases |-> 0, n_pct |-> <<>>]

\* ModulePerBaseNContent::summarize_module
NContentSummarize(sm, st) ==
  [num_bases |-> st.max_read_length,
   n_pct |->
     [p \in 1..st.max_read_length |->
        LET i == p - 1
        IN IF i < kNumBases
           THEN DivNat(100 * At(st.n_base_count, i),
                       At(st.cumulative_read_length_freq, i))
           ELSE DivNat(100 * At(st.long_n_base_count, i - kNumBases),
                       AtOrBeyond(st.long_cumulative_read_length_freq, i,
                                  st.out_of_range))]]

\* one iteration of the loop of ModulePerBaseNContent::make_grade
NContentGradeCell(g, v, warn, error) ==
  IF g # "fail"
  THEN IF DGt(v, error) THEN "fail"
       ELSE IF DGt(v, warn) THEN "warn"
       ELSE g
  ELSE g

-----------------------------------------------------------------------------
(* ModuleOverrepresentedSequences *)

NoHit == "No Hit"

\* std::string::find(needle) != npos
Contains(hay, needle) ==
  \E k \in 0..(Len(hay) - Len(needle)) :
    \A j \in 1..Len(needle) : hay[k + j] = needle[j]

\* the loop of get_matching_contaminant from contaminant number k on, with
\* the locals best and ret
RECURSIVE MatchFrom(_, _, _, _, _)
MatchFrom(seq, contaminants, k, best, ret) ==
  IF k > Len(contaminants)
  THEN (IF best > 0 THEN ret ELSE NoHit)
  ELSE LET v == contaminants[k]
       IN IF Len(seq) > Len(v[2])
          THEN IF Contains(seq, v[2]) /\ Len(v[2]) > best
               THEN MatchFrom(seq, contaminants, k + 1, Len(v[2]), v[1])
               ELSE MatchFrom(seq, contaminants, k + 1, best, ret)
          ELSE IF Contains(v[2], seq)
               THEN v[1]
               ELSE MatchFrom(seq, contaminants, k + 1, best, ret)

\* the longest match, whichever of the two strings contains the other
get_matching_contaminant_best_only(seq, contaminants) ==
  LET RECURSIVE Best(_, _, _)
      Best(k, best, ret) ==
        IF k > Len(contaminants)
        THEN (IF best > 0 THEN ret ELSE NoHit)
        ELSE LET v == contaminants[k]
             IN IF /\ Contains(seq, v[2]) \/ Contains(v[2], seq)
                   /\ Len(v[2]) > best
                THEN Best(k + 1, Len(v[2]), v[1])
                ELSE Best(k + 1, best, ret)
  IN Best(1, 0, "")

\* ModuleOverrepresentedSequences::get_matching_contaminant and
\* FalcoConfig::get_matching_contaminant (the two bodies are the same)
get_matching_contaminant(seq, contaminants) == MatchFrom(seq, contaminants, 1, 0, "")

\* the constructor of ModuleOverrepresentedSequences fills neither list
OverrepConstructed == [num_reads |-> 0, overrep_sequences |-> <<>>,
                       contaminants |-> <<>>]

\* it->second > num_reads * min_fraction_to_overrepresented, with the fraction
\* kOverrepMinFrac = 0.001
IsOverrepresented(count, num_reads) == 1000 * count > num_reads

\* std::sort with the comparator a.second > b.second (the order of equal
\* counts is unspecified; the model keeps the order of insertion)
RECURSIVE SortByCountDesc(_)
SortByCountDesc(v) ==
  IF v = <<>> THEN <<>>
  ELSE LET m == CHOOSE k \in 1..Len(v) :
                  /\ \A j \in 1..Len(v) : v[k][2] >= v[j][2]
                  /\ \A j \in 1..(k - 1) : v[j][2] < v[k][2]
       IN <<v[m]>> \o SortByCountDesc(SubSeq(v, 1, m - 1) \o SubSeq(v, m + 1, Len(v)))

\* the (sequence, count) pairs of a map as a vector, in iteration order
RECURSIVE PairsOf(_, _)
PairsOf(f, D) ==
  IF D = {} THEN <<>>
  ELSE LET q == CHOOSE x \in D : TRUE
       IN <<<<q, f[q]>>>> \o PairsOf(f, D \ {q})

\* ModuleOverrepresentedSequences::summarize_module
OverrepSummarize(sm, st) ==
  LET kept == {q \in DOMAIN st.sequence_count :
                 IsOverrepresented(st.sequence_count[q], st.num_reads)}
  IN [sm EXCEPT
        !.num_reads = st.num_reads,
        !.overrep_sequences =
           SortByCountDesc(sm.overrep_sequences \o PairsOf(st.sequence_count, kept))]

\* one iteration of the loop of ModuleOverrepresentedSequences::make_grade
OverrepGradeCell(g, seq, num_reads, warn, error) ==
  IF g # "fail"
  THEN LET pct == DivNat(100 * seq[2], num_reads)
       IN IF DGt(pct, error) THEN "fail"
          ELSE IF DGt(pct, warn) THEN "warn"
          ELSE g
  ELSE g

-----------------------------------------------------------------------------
(* class Module: virtual dispatch over the subclasses of the model *)

Kinds == {"ModulePerTileSequenceQuality", "ModulePerBaseNContent",
          "ModuleSequenceDuplicationLevels", "ModuleOverrepresentedSequences"}

\* the phases of Module::summarize, in the order of its statements
Phases == <<"summarize_module", "make_grade", "make_html_data">>

\* virtual summarize_module
summarize_module(k, sm, st) ==
  CASE k = "ModulePerTileSequenceQuality" -> TileSummarize(sm, st)
    [] k = "ModulePerBaseNContent" -> NContentSummarize(sm, st)
    [] k = "ModuleSequenceDuplicationLevels" -> DupSummarize(sm, st)
    [] k = "ModuleOverrepresentedSequences" -> OverrepSummarize(sm, st)

\* virtual make_grade, the statements before its loop (the whole function
\* where it has no loop)
make_grade_enter(k, g, sm, warn, error) ==
  CASE k = "ModulePerTileSequenceQuality" -> "pass"
    [] k = "ModuleSequenceDuplicationLevels" -> DupMakeGrade(g, sm, warn, error)
    [] OTHER -> g

\* the values the loop of make_grade visits, in order
GradeCells(k, sm, st) ==
  CASE k = "ModulePerTileSequenceQuality" -> TileCells(sm, st)
    [] k = "ModulePerBaseNContent" -> sm.n_pct
    [] k = "ModuleOverrepresentedSequences" -> sm.overrep_sequences
    [] OTHER -> <<>>

\* virtual make_grade, one iteration of its loop
make_grade_step(k, g, cell, sm, warn, error) ==
  CASE k = "ModulePerTileSequenceQuality" -> TileGradeCell(g, cell, warn, error)
    [] k = "ModulePerBaseNContent" -> NContentGradeCell(g, cell, warn, error)
    [] k = "ModuleOverrepresentedSequences" ->
         OverrepGradeCell(g, cell, sm.num_reads, warn, error)
    [] OTHER -> g

\* virtual make_html_data / write_module: the series the module serialises
make_html_data(k, sm) ==
  CASE k = "ModulePerTileSequenceQuality" ->
         <<sm.tiles_sorted,
           [i \in 1..Len(sm.tiles_sorted) |-> sm.tile_position_quality[sm.tiles_sorted[i]]]>>
    [] k = "ModulePerBaseNContent" -> <<sm.n_pct>>
    [] k = "ModuleSequenceDuplicationLevels" ->
         <<sm.percentage_total, sm.percentage_deduplicated>>
    [] k = "ModuleOverrepresentedSequences" ->
         [i \in 1..Len(sm.overrep_sequences) |->
            <<sm.overrep_sequences[i][1], sm.overrep_sequences[i][2],
              DivNat(100 * sm.overrep_sequences[i][2], sm.num_reads),
              get_matching_contaminant(sm.overrep_sequences[i][1], sm.contaminants)>>]

-----------------------------------------------------------------------------
(* Module::summarize, Module::write, Module::write_short_summary *)

\* Module::summarize is entered
SummarizeCall ==
  /\ pc = "idle"
  /\ ncalls < MaxCalls
  /\ pc' = "summarize_module"
  /\ call' = "summarize"
  /\ err' = "none"
  /\ trace' = <<>>
  /\ ncalls' = ncalls + 1
  /\ pre' = IF summarized THEN <<summary, grade, html_data>> ELSE <<>>
  /\ UNCHANGED <<kind, stats, grade_warn, grade_error, summarized, grade,
                 html_data, summary, os, gi>>
  /\ UNCHANGED varsCall

\* summarize_module(stats)
RunSummarizeModuleFlagFirst ==
  /\ pc = "summarize_module"
  /\ summarized' = TRUE
  /\ summary' = summarize_module(kind, summary, stats)
  /\ trace' = Append(trace, "summarize_module")
  /\ pc' = "make_grade"
  /\ UNCHANGED <<kind, stats, grade_warn, grade_error, grade,
                 html_data, os, gi, call, err, pre, ncalls>>
  /\ UNCHANGED varsCall

RunSummarizeModule ==
  /\ pc = "summarize_module"
  /\ summary' = summarize_module(kind, summary, stats)
  /\ trace' = Append(trace, "summarize_module")
  /\ pc' = "make_grade"
  /\ UNCHANGED <<kind, stats, grade_warn, grade_error, summarized, grade,
                 html_data, os, gi, call, err, pre, ncalls>>
  /\ UNCHANGED varsCall

\* make_grade() is entered and runs up to its loop
MakeGradeEnter ==
  /\ pc = "make_grade"
  /\ grade' = make_grade_enter(kind, grade, summary, grade_warn, grade_error)
  /\ gi' = 0
  /\ pc' = "make_grade_loop"
  /\ UNCHANGED <<kind, stats, grade_warn, grade_error, summarized,
                 html_data, summary, os, trace, call, err, pre, ncalls>>
  /\ UNCHANGED varsCall

\* one iteration of the loop of make_grade()
MakeGradeStep ==
  /\ pc = "make_grade_loop"
  /\ gi < Len(GradeCells(kind, summary, stats))
  /\ grade' = make_grade_step(kind, grade, GradeCells(kind, summary, stats)[gi + 1],
                              summary, grade_warn, grade_error)
  /\ gi' = gi + 1
  /\ UNCHANGED <<kind, stats, grade_warn, grade_error, summarized,
                 html_data, summary, os, pc, trace, call, err, pre, ncalls>>
  /\ UNCHANGED varsCall

\* make_grade() returns
MakeGradeReturn ==
  /\ pc = "make_grade_loop"
  /\ gi >= Len(GradeCells(kind, summary, stats))
  /\ trace' = Append(trace, "make_grade")
  /\ pc' = "make_html_data"
  /\ UNCHANGED <<kind, stats, grade_warn, grade_error, summarized, grade,
                 html_data, summary, os, gi, call, err, pre, ncalls>>
  /\ UNCHANGED varsCall

\* html_data = make_html_data()
RunMakeHtmlData ==
  /\ pc = "make_html_data"
  /\ html_data' = make_html_data(kind, summary)
  /\ trace' = Append(trace, "make_html_data")
  /\ pc' = "set_summarized"
  /\ UNCHANGED <<kind, stats, grade_warn, grade_error, summarized, grade,
                 summary, os, gi, call, err, pre, ncalls>>
  /\ UNCHANGED varsCall

\* summarized = true; summarize returns
SetSummarized ==
  /\ pc = "set_summarized"
  /\ summarized' = TRUE
  /\ pc' = "idle"
  /\ UNCHANGED <<kind, stats, grade_warn, grade_error, grade, html_data,
                 summary, os, gi, trace, call, err, pre, ncalls>>
  /\ UNCHANGED varsCall

\* a phase throws (an allocation fails): the exception leaves
\* Module::summarize, whose remaining statements do not run
PhaseThrows ==
  /\ pc \in {"summarize_module", "make_grade", "make_html_data"}
  /\ pc' = "idle"
  /\ err' = "exception"
  /\ UNCHANGED <<kind, stats, grade_warn, grade_error, summarized, grade,
                 html_data, summary, os, gi, trace, call, pre, ncalls>>
  /\ UNCHANGED varsCall

\* Module::write(os)
writeUnchecked ==
  /\ pc = "idle"
  /\ Len(os) < MaxWrites
  /\ call' = "write"
  /\ os' = Append(os, << <<">>", kind, grade>>, make_html_data(kind, summary),
                         <<">>END_MODULE">> >>)
  /\ err' = "none"
  /\ UNCHANGED <<kind, stats, grade_warn, grade_error, summarized, grade,
                 html_data, summary, pc, gi, trace, pre, ncalls>>
  /\ UNCHANGED varsCall

write ==
  /\ pc = "idle"
  /\ Len(os) < MaxWrites
  /\ call' = "write"
  /\ IF ~summarized
     THEN /\ err' = "runtime_error"
          /\ os' = os
     ELSE /\ os' = Append(os, << <<">>", kind, grade>>,
                                 make_html_data(kind, summary),
                                 <<">>END_MODULE">> >>)
          /\ err' = "none"
  /\ UNCHANGED <<kind, stats, grade_warn, grade_error, summarized, grade,
                 html_data, summary, pc, gi, trace, pre, ncalls>>
  /\ UNCHANGED varsCall

\* the input identifier write_short_summary is given
Filenames == {"reads.fastq"}

\* Module::write_short_summary(os, filename)
write_short_summary ==
  /\ pc = "idle"
  /\ Len(os) < MaxWrites
  /\ call' = "write_short_summary"
  /\ \E filename \in Filenames :
       IF ~summarized
       THEN /\ err' = "runtime_error"
            /\ os' = os
       ELSE /\ os' = Append(os, << <<toupper(grade), kind, filename>> >>)
            /\ err' = "none"
  /\ UNCHANGED <<kind, stats, grade_warn, grade_error, summarized, grade,
                 html_data, summary, pc, gi, trace, pre, ncalls>>
  /\ UNCHANGED varsCall

-----------------------------------------------------------------------------
(* The snapshots and thresholds of the lifecycle specification *)

TileIds == {1101, 1102}

\* <<bases counted, summed quality>> of one tile at one position
TileCellChoices == {<<0, 0>>, <<1, 10>>, <<1, 20>>, <<1, 30>>}

TileSnapshotsOfLength(n) ==
  {[max_read_length |-> n,
    tile_position_count |-> [t \in TileIds |-> [i \in 1..n |-> f[t][i][1]]],
    tile_position_quality |-> [t \in TileIds |-> [i \in 1..n |-> f[t][i][2]]],
    tile_order |-> SortedSeq(TileIds)] :
     f \in [TileIds -> [1..n -> TileCellChoices]]}

TileSnapshots == UNION {TileSnapshotsOfLength(n) : n \in 1..MaxPos}

\* N count and read count per position; fewer reads reach later positions
NContentSnapshotsOfLength(n) ==
  {[max_read_length |-> n,
    n_base_count |-> nb,
    cumulative_read_length_freq |-> cum,
    long_n_base_count |-> <<>>,
    long_cumulative_read_length_freq |-> <<>>,
    out_of_range |-> 0] :
     nb \in [1..n -> {0, 1, 5}],
     cum \in {c \in [1..n -> {10, 20}] : \A i \in 1..(n - 1) : c[i] >= c[i + 1]}}

NContentSnapshots == UNION {NContentSnapshotsOfLength(n) : n \in 1..MaxPos}

\* the sequences the frequency map may track
SeqPool == {<<"A">>, <<"A", "C">>}

SequenceCounts ==
  UNION {[D -> {1, 2}] : D \in (SUBSET SeqPool) \ {{}}}

TotalCount(f) ==
  LET RECURSIVE Sum(_)
      Sum(D) == IF D = {} THEN 0
                ELSE LET q == CHOOSE x \in D : TRUE IN f[q] + Sum(D \ {q})
  IN Sum(DOMAIN f)

\* num_reads: the tracked reads plus reads of untracked sequences;
\* count_at_limit: the reads seen when tracking was capped
SeqSnapshots(extra) ==
  {[num_reads |-> TotalCount(f) + e, count_at_limit |-> TotalCount(f) + e - d,
    sequence_count |-> f] :
     f \in SequenceCounts, e \in extra, d \in {0, 1}}

SeqSnapshotOk(st) == st.count_at_limit >= 1

\* <<warn, error>> of the limits file, per family
TileLimits == {<<IntD(5), IntD(10)>>}
NContentLimits == {<<IntD(5), IntD(20)>>}
DupLimits == {<<IntD(70), IntD(50)>>}
OverrepLimits == {<<Fin(1, 10), IntD(1)>>}

InitModule(k, st, lim, sm) ==
  /\ kind = k
  /\ stats = st
  /\ grade_warn = lim[1]
  /\ grade_error = lim[2]
  /\ summary = sm
  /\ summarized = FALSE
  /\ grade = "pass"
  /\ html_data = <<>>
  /\ os = <<>>
  /\ pc = "idle"
  /\ gi = 0
  /\ trace = <<>>
  /\ call = "constructor"
  /\ err = "none"
  /\ pre = <<>>
  /\ ncalls = 0

\* no call is taken on its own
NoCall == args = <<>> /\ frame = <<>> /\ at = "none"

InitLifecycle ==
  \/ \E st \in TileSnapshots, lim \in TileLimits :
       /\ InitModule("ModulePerTileSequenceQuality", st, lim, TileConstructed)
  \/ \E st \in NContentSnapshots, lim \in NContentLimits :
       /\ InitModule("ModulePerBaseNContent", st, lim, NContentConstructed)
  \/ \E st \in SeqSnapshots({0, 3}), lim \in DupLimits, b \in BOOLEAN :
       /\ SeqSnapshotOk(st)
       /\ InitModule("ModuleSequenceDuplicationLevels", st, lim, DupConstructed(b))
  \/ \E st \in SeqSnapshots({0, 1500}), lim \in OverrepLimits :
       /\ SeqSnapshotOk(st)
       /\ InitModule("ModuleOverrepresentedSequences", st, lim, OverrepConstructed)

Init == InitLifecycle /\ NoCall

Next ==
  \/ SummarizeCall
  \/ RunSummarizeModule
  \/ MakeGradeEnter
  \/ MakeGradeStep
  \/ MakeGradeReturn
  \/ RunMakeHtmlData
  \/ SetSummarized
  \/ PhaseThrows
  \/ write
  \/ write_short_summary

Spec == Init /\ [][Next]_vars

-----------------------------------------------------------------------------
(* Claims about the module lifecycle, checked under Spec *)

\* a step that is a call of write or write_short_summary
WriteStep == call' \in {"write", "write_short_summary"}

\* C1: write and write_short_summary, called on a module whose summarize call
\* has not completed, throw and leave the output stream as it was; the stream
\* only ever grows while the summarized flag is set.
C1_WriteOnlyAfterSummarize ==
  [][/\ (WriteStep /\ ~summarized) => (os' = os /\ err' = "runtime_error")
     /\ (os' # os) => (summarized /\ pc = "idle")
     /\ (summarized' /\ ~summarized) => trace = Phases]_vars

\* C1 witness: write was called before any summarize completed, threw, and
\* the stream is still empty
C1_Witness ==
  /\ call \in {"write", "write_short_summary"}
  /\ err = "runtime_error"
  /\ ~summarized
  /\ os = <<>>

\* C2: the phases completed by a summarize call are always a prefix of
\* summarize_module, make_grade, make_html_data; the summarized flag changes
\* only from false to true and only once all three have completed; a phase
\* that throws leaves the flag as it was, so a module whose only summarize
\* calls threw is not summarized.
C2_PhasesInOrder ==
  [][/\ \E n \in 0..Len(Phases) : trace' = SubSeq(Phases, 1, n)
     /\ (summarized' # summarized) => (summarized' /\ trace = Phases)
     /\ (err' = "exception") => (summarized' = summarized)
     /\ (err' = "exception" /\ pre' = <<>>) => ~summarized']_vars

\* C2 witness: a summarize call has run its three phases and set the flag
C2_Witness ==
  /\ pc = "idle"
  /\ call = "summarize"
  /\ err = "none"
  /\ trace = Phases
  /\ summarized

\* a step that is one iteration of the loop of make_grade
ScanStep == pc = "make_grade_loop" /\ gi' = gi + 1

\* C3: the grade starts at pass, is always one of pass, warn, fail, and never
\* moves down in the order pass < warn < fail over an iteration of a grading
\* loop, nor over any step of the first summarize call.
C3_GradeOnlyEscalates ==
  /\ grade = "pass"
  /\ [][/\ grade' \in Grades
        /\ (ScanStep \/ ncalls' = 1) => Rank(grade') >= Rank(grade)]_vars

\* C3 witness: a grading loop that has reached fail still has values to visit
C3_Witness ==
  /\ pc = "make_grade_loop"
  /\ grade = "fail"
  /\ gi >= 1
  /\ gi < Len(GradeCells(kind, summary, stats))

\* C4 (as claimed): a summarize call that completes on an already summarized
\* module, with the same snapshot, leaves the derived summary, the grade and
\* the payload as they were when it was entered.
C4_ResummarizeChangesNothing ==
  (pc = "idle" /\ call = "summarize" /\ err = "none" /\ pre # <<>>)
    => <<summary, grade, html_data>> = pre

-----------------------------------------------------------------------------
(* A call taken on its own: the module variables stay as constructed *)

IdleModule == InitModule("none", <<>>, <<IntD(0), IntD(0)>>, <<>>)

-----------------------------------------------------------------------------
(* ModulePerBaseSequenceQuality::summarize_module *)

\* reads a snapshot is accumulated from
MaxReads == 2
\* length of the long reads of the snapshots: above 75, where grouping starts
LongRead == 77
\* length of the reads that end inside the first group of several positions
MidRead == 11

\* the size of the Phred histogram, FastqStats::kNumQualityValues
kNumQualityValues == 128

\* the loop of make_base_groups from starting_base on
RECURSIVE BaseGroupsFrom(_, _, _)
BaseGroupsFrom(starting_base, interval, num_bases) ==
  IF starting_base >= num_bases THEN <<>>
  ELSE LET e == starting_base + interval - 1
           end_base == IF e >= num_bases THEN num_bases ELSE e
           s == starting_base + interval
           i1 == IF s = 9 /\ num_bases > 75 THEN 5 ELSE interval
           i2 == IF s = 49 /\ num_bases > 200 THEN 10 ELSE i1
           i3 == IF s = 99 /\ num_bases > 300 THEN 50 ELSE i2
           i4 == IF s = 499 /\ num_bases > 1000 THEN 100 ELSE i3
           i5 == IF s = 1000 /\ num_bases > 2000 THEN 500 ELSE i4
       IN <<[start |-> starting_base, end |-> end_base]>>
            \o BaseGroupsFrom(s, i5, num_bases)

make_base_groups(num_bases) == BaseGroupsFrom(0, 1, num_bases)

make_default_base_groups(num_bases) ==
  [g \in 1..num_bases |-> [start |-> g - 1, end |-> g - 1]]

\* the quality of read r at position i (0-based): a read carries one quality
\* on its first nine bases and one on the rest
QualityAt(r, i) == IF i < 9 THEN r.q_head ELSE r.q_tail

\* FastqStats counters of a snapshot accumulated from st.reads: the bases of
\* quality j at position i, and the reads that reach position i
position_quality_count(st, i, j) ==
  Cardinality({k \in 1..Len(st.reads) :
                 st.reads[k].len > i /\ QualityAt(st.reads[k], i) = j})

cumulative_read_length_freq(st, i) ==
  Cardinality({k \in 1..Len(st.reads) : st.reads[k].len > i})

\* one iteration of the position loop of a group, on position i: the
\* histogram and the base count are reset, then filled from position i
PositionStepKeepsBases(st, i, acc) ==
  [histogram |->
     [j \in 0..(kNumQualityValues - 1) |->
        IF i < kNumBases THEN position_quality_count(st, i, j) ELSE 0],
   bases_in_group |->
     acc.bases_in_group
       + (IF i < kNumBases THEN cumulative_read_length_freq(st, i) ELSE 0)]

PositionStep(st, i, acc) ==
  [histogram |->
     [j \in 0..(kNumQualityValues - 1) |->
        0 + (IF i < kNumBases THEN position_quality_count(st, i, j) ELSE 0)],
   bases_in_group |->
     0 + (IF i < kNumBases THEN cumulative_read_length_freq(st, i) ELSE 0)]

\* the position loop of a group from position i to position end
RECURSIVE GroupPositions(_, _, _, _)
GroupPositions(st, i, end, acc) ==
  IF i > end THEN acc
  ELSE GroupPositions(st, i + 1, end, PositionStep(st, i, acc))

\* the scan of the histogram for one quantile: cur is the local
\* cur_<quantile>, thresh = <<n, d>> stands for (n/d) * bases. counts, the
\* running sum before quality j, only grows, so at most one j has
\* counts < thresh and counts + histogram[j] >= thresh; without one, cur
\* keeps the value the previous group left
ScanQuantile(histogram, thresh, bases, cur) ==
  LET filled == {k \in DOMAIN histogram : histogram[k] > 0}
      RECURSIVE SumBelow(_, _)
      SumBelow(K, j) ==
        IF K = {} THEN 0
        ELSE LET k == CHOOSE x \in K : TRUE
             IN (IF k < j THEN histogram[k] ELSE 0) + SumBelow(K \ {k}, j)
      counts(j) == SumBelow(filled, j)
      hits == {j \in DOMAIN histogram :
                 /\ counts(j) * thresh[2] < thresh[1] * bases
                 /\ (counts(j) + histogram[j]) * thresh[2] >= thresh[1] * bases}
  IN IF hits = {} THEN cur ELSE CHOOSE j \in hits : \A h \in hits : h <= j

\* the multipliers of ldecile_thresh .. udecile_thresh: 0.1, 0.25, 0.5,
\* 0.75, 0.9
QuantileThresh ==
  [ldecile |-> <<1, 10>>, lquartile |-> <<1, 4>>, median |-> <<1, 2>>,
   uquartile |-> <<3, 4>>, udecile |-> <<9, 10>>]

\* one iteration of the group loop: cur holds cur_ldecile .. cur_udecile as
\* the previous iteration left them and carries the base count left by the
\* previous group's position loop
QualityGroup(st, grp, cur) ==
  LET acc == GroupPositions(st, grp.start, grp.end,
               [histogram |-> [j \in 0..(kNumQualityValues - 1) |-> 0],
                bases_in_group |-> cur.bases_in_group])
  IN [q \in {"ldecile", "lquartile", "median", "uquartile", "udecile"} |->
        ScanQuantile(acc.histogram, QuantileThresh[q],
                     acc.bases_in_group, cur[q])]
       @@ [bases_in_group |-> acc.bases_in_group]

\* the reads of the snapshots: short, ending inside a group, or long, of low
\* or high quality
ReadChoices ==
  <<[len |-> 2, q_head |-> 2, q_tail |-> 2],
    [len |-> 2, q_head |-> 30, q_tail |-> 30],
    [len |-> MidRead, q_head |-> 30, q_tail |-> 2],
    [len |-> LongRead, q_head |-> 2, q_tail |-> 2],
    [len |-> LongRead, q_head |-> 2, q_tail |-> 40],
    [len |-> LongRead, q_head |-> 30, q_tail |-> 2],
    [len |-> LongRead, q_head |-> 30, q_tail |-> 40]>>

\* one to MaxReads reads (the counters do not depend on the order the reads
\* were seen in, so one order stands for each multiset)
QualitySnapshots ==
  UNION {{[k \in 1..n |-> ReadChoices[ix[k]]] :
            ix \in {f \in [1..n -> 1..Len(ReadChoices)] :
                      \A k \in 1..(n - 1) : f[k] <= f[k + 1]}} :
         n \in 1..MaxReads}

MaxLen(reads) ==
  LET RECURSIVE M(_)
      M(k) == IF k > Len(reads) THEN 0 ELSE Max(reads[k].len, M(k + 1))
  IN M(1)

InitQuality ==
  /\ IdleModule
  /\ \E reads \in QualitySnapshots, do_group \in BOOLEAN :
       args = [reads |-> reads, max_read_length |-> MaxLen(reads),
               do_group |-> do_group]
  /\ frame = <<>>
  /\ at = "entry"

\* the statements before the group loop
QualityEnter ==
  /\ at = "entry"
  /\ frame' = [base_groups |-> IF args.do_group
                               THEN make_base_groups(args.max_read_length)
                               ELSE make_default_base_groups(args.max_read_length),
               cur |-> [ldecile |-> 0, lquartile |-> 0, median |-> 0,
                        uquartile |-> 0, udecile |-> 0, bases_in_group |-> 0],
               groups |-> <<>>]
  /\ at' = "group_loop"
  /\ UNCHANGED args
  /\ UNCHANGED varsModule

\* one iteration of the group loop
QualityGroupStep ==
  /\ at = "group_loop"
  /\ Len(frame.groups) < Len(frame.base_groups)
  /\ LET cur == QualityGroup(args, frame.base_groups[Len(frame.groups) + 1],
                             frame.cur)
     IN frame' = [frame EXCEPT !.cur = cur, !.groups = Append(@, cur)]
  /\ UNCHANGED <<args, at>>
  /\ UNCHANGED varsModule

\* the group loop ends, summarize_module returns
QualityReturn ==
  /\ at = "group_loop"
  /\ Len(frame.groups) >= Len(frame.base_groups)
  /\ at' = "returned"
  /\ UNCHANGED <<args, frame>>
  /\ UNCHANGED varsModule

\* the thresholds the constructor reads from limits["quality_base_lower"]
\* and limits["quality_base_median"]
QualityLimits ==
  {[base_lower_warn |-> 10, base_lower_error |-> 5,
    base_median_warn |-> 25, base_median_error |-> 20],
   [base_lower_warn |-> 10, base_lower_error |-> 5,
    base_median_warn |-> 35, base_median_error |-> 25]}

\* one iteration of the loop of ModulePerBaseSequenceQuality::make_grade on
\* group grp; acc holds grade, num_warn and num_error
QualityGradeGroupStopsAtFail(acc, grp, lim) ==
  IF acc.grade # "fail" /\ acc.num_error = 0
  THEN IF grp.lquartile < lim.base_lower_error
            \/ grp.median < lim.base_median_error
       THEN [acc EXCEPT !.num_error = @ + 1]
       ELSE IF grp.lquartile < lim.base_lower_warn
                 \/ grp.median < lim.base_median_warn
       THEN [acc EXCEPT !.num_warn = @ + 1]
       ELSE acc
  ELSE acc

QualityGradeGroup(acc, grp, lim) ==
  IF acc.grade # "fail"
  THEN IF grp.lquartile < lim.base_lower_error
            \/ grp.median < lim.base_median_error
       THEN [acc EXCEPT !.num_error = @ + 1]
       ELSE IF grp.lquartile < lim.base_lower_warn
                 \/ grp.median < lim.base_median_warn
       THEN [acc EXCEPT !.num_warn = @ + 1]
       ELSE acc
  ELSE acc

\* the loop of make_grade from group i on
RECURSIVE QualityGradeLoop(_, _, _, _)
QualityGradeLoop(groups, i, acc, lim) ==
  IF i > Len(groups) THEN acc
  ELSE QualityGradeLoop(groups, i + 1, QualityGradeGroup(acc, groups[i], lim), lim)

\* ModulePerBaseSequenceQuality::make_grade, entered with grade g
QualityMakeGrade(groups, g, lim) ==
  LET acc == QualityGradeLoop(groups, 1,
               [grade |-> g, num_warn |-> 0, num_error |-> 0], lim)
  IN [acc EXCEPT !.grade = IF acc.num_error > 0 THEN "fail"
                           ELSE IF acc.num_warn > 0 THEN "warn"
                           ELSE @]

\* make_grade runs on the summary; the module holds the grade it was
\* constructed with ("pass") or the grade an earlier summarize left
QualityGrade ==
  /\ at = "returned"
  /\ \E lim \in QualityLimits, g \in {"pass", "warn", "fail"} :
       frame' = [base_groups |-> frame.base_groups, cur |-> frame.cur,
                 groups |-> frame.groups, limits |-> lim, grade_in |-> g,
                 graded |-> QualityMakeGrade(frame.groups, g, lim)]
  /\ at' = "graded"
  /\ UNCHANGED args
  /\ UNCHANGED varsModule

NextQuality == QualityEnter \/ QualityGroupStep \/ QualityReturn \/ QualityGrade

SpecQuality == InitQuality /\ [][NextQuality]_vars

\* C5: in every position-group summarize_module has filled, the five
\* quantiles are in order: 10th percentile <= lower quartile <= median <=
\* upper quartile <= 90th percentile.
C5_QuantilesNonDecreasing ==
  at \in {"group_loop", "returned"} =>
    \A g \in 1..Len(frame.groups) :
      /\ frame.groups[g].ldecile <= frame.groups[g].lquartile
      /\ frame.groups[g].lquartile <= frame.groups[g].median
      /\ frame.groups[g].median <= frame.groups[g].uquartile
      /\ frame.groups[g].uquartile <= frame.groups[g].udecile

\* C5 witness: a grouped summary has returned in which a group of several
\* positions has a 10th percentile strictly below its 90th percentile
C5_Witness ==
  /\ at = "returned"
  /\ args.do_group
  /\ \E g \in 1..Len(frame.groups) :
       /\ frame.base_groups[g].end > frame.base_groups[g].start
       /\ frame.groups[g].ldecile < frame.groups[g].udecile

-----------------------------------------------------------------------------
(* FalcoConfig::read_contaminants_file *)

\* lines of the contaminants file
MaxLines == 2
\* whitespace-separated tokens on one line
MaxTokens == 3

\* the tokens a line is made of
TokenPool == {"Illumina", "ACGT"}

\* a line: whether its first character is '#', and its tokens
FileLines ==
  {[hash |-> TRUE, tokens |-> <<>>]}
    \cup {[hash |-> FALSE, tokens |-> t] :
            t \in UNION {[1..n -> TokenPool] : n \in 0..MaxTokens}}

\* contaminant_name: every token but the last, each followed by a space
RECURSIVE NameOfTokens(_, _)
NameOfTokens(line_by_space, i) ==
  IF i > Len(line_by_space) - 1 THEN <<>>
  ELSE <<line_by_space[i], " ">> \o NameOfTokens(line_by_space, i + 1)

\* the pair pushed for a line of more than one token: the local
\* contaminant_seq is initialised to "" and never assigned (the last token
\* goes to a second local, contaminent_seq, that is not used)
ContaminantOfLine(line_by_space) ==
  LET contaminant_seq == ""
      contaminant_name == NameOfTokens(line_by_space, 1)
      contaminent_seq == line_by_space[Len(line_by_space)]
  IN <<contaminant_name, contaminant_seq>>

\* the body of the getline loop on one line
ReadLine(contaminants, line) ==
  IF ~line.hash /\ Len(line.tokens) > 1
  THEN Append(contaminants, ContaminantOfLine(line.tokens))
  ELSE contaminants

InitContaminantsFile ==
  /\ IdleModule
  /\ \E exists \in BOOLEAN :
       \E lines \in UNION {[1..n -> FileLines] : n \in 0..MaxLines} :
         /\ (~exists => lines = <<>>)
         /\ args = [exists |-> exists, lines |-> lines]
  /\ frame = <<>>
  /\ at = "entry"

\* the file cannot be opened
ContaminantsFileMissing ==
  /\ at = "entry"
  /\ ~args.exists
  /\ at' = "runtime_error"
  /\ UNCHANGED <<args, frame>>
  /\ UNCHANGED varsModule

\* the file is open
ContaminantsFileOpen ==
  /\ at = "entry"
  /\ args.exists
  /\ frame' = [contaminants |-> <<>>, read |-> 0]
  /\ at' = "getline"
  /\ UNCHANGED args
  /\ UNCHANGED varsModule

\* getline gives the next line
ContaminantsReadLine ==
  /\ at = "getline"
  /\ frame.read < Len(args.lines)
  /\ frame' = [contaminants |-> ReadLine(frame.contaminants,
                                         args.lines[frame.read + 1]),
               read |-> frame.read + 1]
  /\ UNCHANGED <<args, at>>
  /\ UNCHANGED varsModule

\* getline reaches the end of the file
ContaminantsReturn ==
  /\ at = "getline"
  /\ frame.read >= Len(args.lines)
  /\ at' = "returned"
  /\ UNCHANGED <<args, frame>>
  /\ UNCHANGED varsModule

NextContaminantsFile ==
  \/ ContaminantsFileMissing
  \/ ContaminantsFileOpen
  \/ ContaminantsReadLine
  \/ ContaminantsReturn

SpecContaminantsFile == InitContaminantsFile /\ [][NextContaminantsFile]_vars

\* the lines that define a contaminant, in file order
RECURSIVE DefiningLines(_)
DefiningLines(lines) ==
  IF lines = <<>> THEN <<>>
  ELSE (IF ~Head(lines).hash /\ Len(Head(lines).tokens) > 1
        THEN <<Head(lines)>> ELSE <<>>) \o DefiningLines(Tail(lines))

\* C7 (as claimed): when read_contaminants_file has returned, the list holds
\* one pair per non-comment line of at least two tokens, in file order, and
\* the sequence of each pair is the last token of its line.
C7_StoresLastTokenInFileOrder ==
  at = "returned" =>
    LET def == DefiningLines(args.lines)
    IN /\ Len(frame.contaminants) = Len(def)
       /\ \A k \in 1..Len(def) :
            frame.contaminants[k][2] = def[k].tokens[Len(def[k].tokens)]

-----------------------------------------------------------------------------
(* get_matching_contaminant taken on its own *)

\* length of the candidate and of a contaminant sequence
MaxSeqLen == 3
\* contaminants in the list
MaxContaminants == 2

Bases == {"A", "C"}

\* the strings over Bases of length lo .. hi
BaseStrings(lo, hi) == UNION {[1..n -> Bases] : n \in lo..hi}

\* the name of the k-th contaminant of an enumerated list
ContaminantNames == <<"X", "Y", "Z", "W">>

\* the list with the sequences c, named in order
ContaminantList(c) == [k \in DOMAIN c |-> <<ContaminantNames[k], c[k]>>]

\* the two calls the specification gives as examples
ExampleCalls ==
  {[seq |-> <<"A", "C", "G", "T", "A", "C", "G", "T">>,
    contaminants |-> << <<"X", <<"A", "C", "G", "T">> >> >>],
   [seq |-> <<"A", "C", "G", "T">>,
    contaminants |-> << <<"Y", <<"A", "C", "G", "T", "A", "C", "G", "T">> >> >>]}

InitContaminant ==
  /\ IdleModule
  /\ \/ \E seq \in BaseStrings(1, MaxSeqLen), n \in 0..MaxContaminants :
          \E c \in [1..n -> BaseStrings(0, MaxSeqLen)] :
            args = [seq |-> seq, contaminants |-> ContaminantList(c)]
     \/ args \in ExampleCalls
  /\ frame = <<>>
  /\ at = "entry"

\* the call runs and returns
CallGetMatchingContaminant ==
  /\ at = "entry"
  /\ frame' = get_matching_contaminant(args.seq, args.contaminants)
  /\ at' = "returned"
  /\ UNCHANGED args
  /\ UNCHANGED varsModule

NextContaminant == CallGetMatchingContaminant

SpecContaminant == InitContaminant /\ [][NextContaminant]_vars

\* the contaminants that contain the candidate, and those of at least
\* min_len characters, shorter than the candidate, that occur inside it
ContainingSeq(seq, cs) ==
  {k \in 1..Len(cs) : Len(cs[k][2]) >= Len(seq) /\ Contains(cs[k][2], seq)}
InsideSeq(seq, cs, min_len) ==
  {k \in 1..Len(cs) : /\ Len(cs[k][2]) < Len(seq)
                      /\ Len(cs[k][2]) >= min_len
                      /\ Contains(seq, cs[k][2])}

\* the result the claim describes, the contaminants inside the candidate
\* counted from min_len characters on
DescribedMatch(seq, cs, min_len) ==
  LET containing == ContainingSeq(seq, cs)
      inside == InsideSeq(seq, cs, min_len)
  IN IF containing # {}
     THEN cs[CHOOSE k \in containing : \A h \in containing : k <= h][1]
     ELSE IF inside # {}
     THEN cs[CHOOSE k \in inside :
               \A h \in inside :
                 \/ Len(cs[k][2]) > Len(cs[h][2])
                 \/ (Len(cs[k][2]) = Len(cs[h][2]) /\ k <= h)][1]
     ELSE NoHit

\* what the two example calls must return
ExamplesHold ==
  (at = "returned" /\ args \in ExampleCalls) =>
    frame = args.contaminants[1][1]

\* C6 (amended): the call returns the name of the first contaminant in list
\* order that is at least as long as the candidate and contains it; without
\* one, the name of the longest non-empty contaminant shorter than the
\* candidate that occurs inside it (the earliest among equal lengths);
\* without one, "No Hit". The two example calls return "X" and "Y".
C6_MatchIgnoresEmptyContaminants ==
  /\ at = "returned" =>
       frame = DescribedMatch(args.seq, args.contaminants, 1)
  /\ ExamplesHold

\* C6 witness: the call returned the name of a contaminant found inside the
\* candidate, none contains the candidate, and an empty contaminant is in the
\* list
C6_Witness ==
  /\ at = "returned"
  /\ frame # NoHit
  /\ ContainingSeq(args.seq, args.contaminants) = {}
  /\ \E k \in 1..Len(args.contaminants) : args.contaminants[k][2] = <<>>

\* C6 (as claimed): as above, with every contaminant shorter than the
\* candidate counted, the empty one included.
C6_MatchAsClaimed ==
  at = "returned" => frame = DescribedMatch(args.seq, args.contaminants, 0)

-----------------------------------------------------------------------------
(* get_corrected_count taken on its own *)

\* reads of the file in the calls of get_corrected_count
MaxNumReads == 6

\* the calls a duplication summary can make: count_at_limit of the num_reads
\* reads were seen while sequences were still being added, and num_obs
\* tracked sequences were each seen dup_level times
CorrectedCountCalls ==
  {[count_at_limit |-> c, num_reads |-> n, dup_level |-> d, num_obs |-> o] :
     c \in 1..MaxNumReads, n \in 1..MaxNumReads,
     d \in 1..MaxNumReads, o \in 1..MaxNumReads}

CorrectedCountCallOk(a) ==
  /\ a.count_at_limit <= a.num_reads
  /\ a.dup_level * a.num_obs <= a.num_reads

InitCorrectedCount ==
  /\ IdleModule
  /\ args \in CorrectedCountCalls
  /\ CorrectedCountCallOk(args)
  /\ frame = <<>>
  /\ at = "entry"

\* the call runs and returns
CallGetCorrectedCount ==
  /\ at = "entry"
  /\ frame' = get_corrected_count(args.count_at_limit, args.num_reads,
                                  args.dup_level, args.num_obs)
  /\ at' = "returned"
  /\ UNCHANGED args
  /\ UNCHANGED varsModule

NextCorrectedCount == CallGetCorrectedCount

SpecCorrectedCount == InitCorrectedCount /\ [][NextCorrectedCount]_vars

\* C8: get_corrected_count returns num_obs itself when count_at_limit equals
\* num_reads, and when num_reads - num_obs is below count_at_limit, at every
\* duplication level.
C8_NoCorrectionOnEarlyReturn ==
  at = "returned" =>
    /\ (args.count_at_limit = args.num_reads) => frame = IntD(args.num_obs)
    /\ (args.num_reads - args.num_obs < args.count_at_limit)
         => frame = IntD(args.num_obs)

\* C8 witness: a call returned num_obs although count_at_limit differs from
\* num_reads: too few reads are left to hide another sequence
C8_Witness ==
  /\ at = "returned"
  /\ args.count_at_limit # args.num_reads
  /\ args.num_reads - args.num_obs < args.count_at_limit
  /\ args.dup_level > 1
  /\ frame = IntD(args.num_obs)

-----------------------------------------------------------------------------
(* ModuleSequenceDuplicationLevels::summarize_module taken on its own *)

\* sequences the frequency map tracks
MaxTracked == 2

\* the duplication levels of the tracked sequences: both sides of every bin
\* boundary
DupLevels == {1, 2, 9, 10, 49, 50, 99, 100, 499, 500, 999, 1000, 4999, 5000,
              9999, 10000}

\* snapshots in which every read came before the tracking limit
DupSnapshotsUncorrected ==
  UNION {{[num_reads |-> TotalCount(f) + e,
           count_at_limit |-> TotalCount(f) + e,
           sequence_count |-> f] :
            f \in [1..n -> DupLevels], e \in {0, 1}} : n \in 1..MaxTracked}

\* snapshots in which reads came after the limit, so counts are corrected
DupSnapshotsCorrected ==
  UNION {{[num_reads |-> TotalCount(f) + e,
           count_at_limit |-> TotalCount(f) + e - d,
           sequence_count |-> f] :
            f \in [1..n -> {1, 2}], e \in {0, 1}, d \in {1, 2}} :
         n \in 1..MaxTracked}

InitDuplication ==
  /\ IdleModule
  /\ \E st \in DupSnapshotsUncorrected \cup DupSnapshotsCorrected,
        b \in BOOLEAN, lim \in DupLimits :
       /\ st.count_at_limit >= 1
       /\ args = [stats |-> st, grade_dup_warn |-> lim[1],
                  grade_dup_error |-> lim[2]]
       /\ frame = [module |-> DupConstructed(b), grade |-> "pass"]
  /\ at = "constructed"

\* summarize_module(stats) on the constructed module
DupSummarizeModule ==
  /\ at = "constructed"
  /\ frame' = [frame EXCEPT !.module = DupSummarize(@, args.stats)]
  /\ at' = "summarize_module"
  /\ UNCHANGED args
  /\ UNCHANGED varsModule

\* make_grade() after it
DupGrade ==
  /\ at = "summarize_module"
  /\ frame' = [frame EXCEPT !.grade = DupMakeGrade(@, frame.module,
                                                   args.grade_dup_warn,
                                                   args.grade_dup_error)]
  /\ at' = "make_grade"
  /\ UNCHANGED args
  /\ UNCHANGED varsModule

NextDuplication == DupSummarizeModule \/ DupGrade

SpecDuplication == InitDuplication /\ [][NextDuplication]_vars

\* the bins that received a frequency class
FilledSlots(a) == {i \in 0..(NumDupSlots - 1) : DGt(a[i], IntD(0))}

\* C9: after summarize_module on a constructed module and a snapshot with at
\* least one tracked sequence, the two percentage series have 16 bins each,
\* every frequency class lies in the bin of its level, and each series sums
\* to 100.
C9_PercentagesSumTo100 ==
  at \in {"summarize_module", "make_grade"} =>
    /\ DOMAIN frame.module.percentage_deduplicated = 0..15
    /\ DOMAIN frame.module.percentage_total = 0..15
    /\ FilledSlots(frame.module.percentage_deduplicated)
         = {DupSlot(r) : r \in DOMAIN frame.module.counts_by_freq}
    /\ DEq(SumSlots(frame.module.percentage_deduplicated, 0), IntD(100))
    /\ DEq(SumSlots(frame.module.percentage_total, 0), IntD(100))

\* C9 witness: a summary with two filled bins, one of them the last one
\* (levels from 10000 on), whose percentages of the total sum to 100
C9_Witness ==
  /\ at = "summarize_module"
  /\ Cardinality(FilledSlots(frame.module.percentage_total)) = 2
  /\ 15 \in FilledSlots(frame.module.percentage_total)
  /\ DEq(SumSlots(frame.module.percentage_total, 0), IntD(100))

-----------------------------------------------------------------------------
(* ModuleBasicStatistics::summarize_module *)

\* reads of the snapshots of the basic statistics
MaxStatReads == 3

\* the read lengths of those snapshots
StatLengths == <<1, 2, 3, 50>>

\* the lengths of one to MaxStatReads reads (one order for each multiset)
StatReadLengths ==
  UNION {{[k \in 1..n |-> StatLengths[ix[k]]] :
            ix \in {f \in [1..n -> 1..Len(StatLengths)] :
                      \A k \in 1..(n - 1) : f[k] <= f[k + 1]}} :
         n \in 1..MaxStatReads}

\* FastqStats counters of a snapshot accumulated from reads of the lengths
\* lens: element i (0-based) of read_length_freq counts the reads of length
\* i + 1, the convention ModuleSequenceLengthDistribution::write_module
\* prints the counter with
StatSnapshot(lens, total_gc) ==
  LET longest == CHOOSE m \in {lens[k] : k \in 1..Len(lens)} :
                   \A k \in 1..Len(lens) : lens[k] <= m
      shortest == CHOOSE m \in {lens[k] : k \in 1..Len(lens)} :
                    \A k \in 1..Len(lens) : lens[k] >= m
  IN [num_reads |-> Len(lens),
      min_read_length |-> shortest,
      max_read_length |-> longest,
      read_length_freq |->
        [p \in 1..longest |-> Cardinality({k \in 1..Len(lens) : lens[k] = p})],
      long_read_length_freq |-> <<>>,
      total_gc |-> total_gc,
      lens |-> lens]

InitBasicStatistics ==
  /\ IdleModule
  /\ \E lens \in StatReadLengths, gc \in {0, 1} :
       args = StatSnapshot(lens, gc * SumSeq(lens))
  /\ frame = <<>>
  /\ at = "entry"

\* the statements before the loop over the read lengths
BasicStatisticsEnter ==
  /\ at = "entry"
  /\ frame' = [total_sequences |-> args.num_reads,
               min_read_length |-> args.min_read_length,
               max_read_length |-> args.max_read_length,
               num_poor |-> 0,
               avg_read_length |-> 0,
               avg_gc |-> IntD(0),
               total_bases |-> 0,
               i |-> 0]
  /\ at' = "length_loop"
  /\ UNCHANGED args
  /\ UNCHANGED varsModule

\* one iteration of the loop: total_bases += i * read_length_freq[i]
BasicStatisticsLengthStep ==
  /\ at = "length_loop"
  /\ frame.i < frame.max_read_length
  /\ frame' = [frame EXCEPT
                 !.total_bases =
                    @ + frame.i *
                        (IF frame.i < kNumBases
                         THEN At(args.read_length_freq, frame.i)
                         ELSE At(args.long_read_length_freq,
                                 frame.i - kNumBases)),
                 !.i = @ + 1]
  /\ UNCHANGED <<args, at>>
  /\ UNCHANGED varsModule

\* the statements after the loop: the two averages
BasicStatisticsReturn ==
  /\ at = "length_loop"
  /\ frame.i >= frame.max_read_length
  /\ frame' = [frame EXCEPT
                 !.avg_read_length = frame.total_bases \div frame.total_sequences,
                 !.avg_gc = DivNat(100 * args.total_gc, frame.total_bases)]
  /\ at' = "returned"
  /\ UNCHANGED args
  /\ UNCHANGED varsModule

NextBasicStatistics ==
  \/ BasicStatisticsEnter
  \/ BasicStatisticsLengthStep
  \/ BasicStatisticsReturn

SpecBasicStatistics == InitBasicStatistics /\ [][NextBasicStatistics]_vars

\* C10 (as claimed): when every read of the snapshot has the same length L,
\* the average read length summarize_module computes is L.
C10_UniformLengthAverage ==
  (at = "returned" /\ args.min_read_length = args.max_read_length)
    => frame.avg_read_length = args.max_read_length

-----------------------------------------------------------------------------
(* FalcoConfig::read_limits *)

\* lines of the limits file before its closing block
MaxLimitLines == 2

\* FalcoConfig::values_to_check, as initialised
values_to_check ==
  <<"duplication", "kmer", "n_content", "overrepresented", "quality_base",
    "sequence", "gc_sequence", "quality_sequence", "tile", "sequence_length",
    "adapter", "duplication", "kmer", "n_content", "overrepresented",
    "quality_base_lower", "quality_base_median", "sequence", "gc_sequence",
    "quality_sequence", "tile", "sequence_length", "adapter">>

\* find(values_to_check.begin(), values_to_check.end(), limit) != end
IsValueToCheck(limit) ==
  \E k \in 1..Len(values_to_check) : values_to_check[k] = limit

Instructions == {"warn", "error", "ignore"}

\* the tokens that operator>> reads as a double, with their values
Numerals == ("0" :> 0) @@ ("5" :> 5) @@ ("10" :> 10)

IsNumber(token) == token \in DOMAIN Numerals

\* is_limit_line: not a comment and longer than one character (a line is
\* [hash, tokens] as for the contaminants file; without tokens it is empty)
is_limit_line(line) == ~line.hash /\ Len(line.tokens) > 0

\* limits[limit][instruction] = value
StoreLimit(limits, limit, instruction, value) ==
  LET inner == IF limit \in DOMAIN limits THEN limits[limit]
               ELSE [x \in {} |-> 0]
      stored == [j \in DOMAIN inner \cup {instruction} |->
                   IF j = instruction THEN value ELSE inner[j]]
  IN [f \in DOMAIN limits \cup {limit} |->
        IF f = limit THEN stored ELSE limits[f]]

\* iss >> limit >> instruction >> value on the tokens of a line: limit is a
\* fresh local; instruction and value are declared outside the loop and keep
\* what they held when the stream runs out of tokens; a token that is no
\* number sets value to 0
ParseLimitLine(st, tokens) ==
  [st EXCEPT
     !.limit = tokens[1],
     !.instruction = IF Len(tokens) >= 2 THEN tokens[2] ELSE @,
     !.value = IF Len(tokens) >= 3
               THEN (IF IsNumber(tokens[3]) THEN Numerals[tokens[3]] ELSE 0)
               ELSE @]

\* the body of the getline loop on one line; st.err is the exception thrown
LimitLine(st, line) ==
  IF ~is_limit_line(line) THEN st
  ELSE LET p == ParseLimitLine(st, line.tokens)
       IN IF ~IsValueToCheck(p.limit)
          THEN [p EXCEPT !.err = "unknown limit option"]
          ELSE IF p.instruction \notin Instructions
          THEN [p EXCEPT !.err = "unknown instruction for limit"]
          ELSE [p EXCEPT !.limits = StoreLimit(@, p.limit, p.instruction,
                                               p.value)]

\* the getline loop from line k on
RECURSIVE LimitLines(_, _, _)
LimitLines(lines, k, st) ==
  IF k > Len(lines) \/ st.err # "none" THEN st
  ELSE LimitLines(lines, k + 1, LimitLine(st, lines[k]))

\* limits[family]["ignore"]: operator[] creates what is missing, with value 0
IgnoreOf(limits, family) ==
  IF family \in DOMAIN limits /\ "ignore" \in DOMAIN limits[family]
  THEN limits[family]["ignore"] ELSE 0

\* the families whose run flag read_limits sets, with the name of the flag
RunFlags ==
  [do_duplication |-> "duplication", do_kmer |-> "kmer",
   do_n_content |-> "n_content", do_overrepresented |-> "overrepresented",
   do_quality_base |-> "quality_base", do_sequence |-> "sequence",
   do_gc_sequence |-> "gc_sequence", do_quality_sequence |-> "quality_sequence",
   do_tile |-> "tile", do_adapter |-> "adapter",
   do_sequence_length |-> "sequence_length"]

FlagInverted(limits, family) == IgnoreOf(limits, family) # 0

\* do_<family> = (limits[<family>]["ignore"] == 0.0)
RunFlag(limits, family) == IgnoreOf(limits, family) = 0

\* the limits once the flags were read: the ignore entries exist
RECURSIVE WithIgnoreEntries(_, _)
WithIgnoreEntries(limits, families) ==
  IF families = {} THEN limits
  ELSE LET f == CHOOSE x \in families : TRUE
       IN WithIgnoreEntries(StoreLimit(limits, f, "ignore", IgnoreOf(limits, f)),
                            families \ {f})

\* FalcoConfig::read_limits on the lines of the file; garbage is what the
\* uninitialised local value holds
read_limits(lines, garbage) ==
  LET st == LimitLines(lines, 1,
              [limits |-> [x \in {} |-> 0], limit |-> "", instruction |-> "",
               value |-> garbage, err |-> "none"])
      missing == {k \in 1..Len(values_to_check) :
                    values_to_check[k] \notin DOMAIN st.limits}
  IN IF st.err # "none" THEN [err |-> st.err, limits |-> st.limits]
     ELSE IF missing # {}
     THEN [err |-> "instruction for limit not found", limits |-> st.limits]
     ELSE [err |-> "none",
           limits |-> WithIgnoreEntries(st.limits,
                        {RunFlags[d] : d \in DOMAIN RunFlags}),
           flags |-> [d \in DOMAIN RunFlags |-> RunFlag(st.limits, RunFlags[d])]]

\* the families in the order the closing block of a file names them
FamilyOrder ==
  <<"duplication", "kmer", "n_content", "overrepresented", "quality_base",
    "sequence", "gc_sequence", "quality_sequence", "tile", "sequence_length",
    "adapter", "quality_base_lower", "quality_base_median">>

\* one line per family, the first n families
FamilyBlock(n, instruction, value) ==
  [k \in 1..n |-> [hash |-> FALSE,
                   tokens |-> <<FamilyOrder[k], instruction, value>>]]

\* how a file ends: nothing more, every family, every family twice, every
\* family but the last
ClosingBlocks ==
  {<<>>,
   FamilyBlock(Len(FamilyOrder), "ignore", "0"),
   FamilyBlock(Len(FamilyOrder), "warn", "5")
     \o FamilyBlock(Len(FamilyOrder), "error", "10"),
   FamilyBlock(Len(FamilyOrder) - 1, "warn", "5")}

\* the lines before the closing block
LimitTokenLines ==
  {<<f>> : f \in {"tile", "bogus"}}
    \cup {<<f, i>> : f \in {"tile", "bogus"}, i \in {"warn", "ignore", "fatal"}}
    \cup {<<f, i, v>> : f \in {"tile", "bogus"},
                        i \in {"warn", "ignore", "fatal"},
                        v \in {"0", "5", "x"}}

LimitLineChoices ==
  {[hash |-> TRUE, tokens |-> <<>>], [hash |-> FALSE, tokens |-> <<>>]}
    \cup {[hash |-> FALSE, tokens |-> t] : t \in LimitTokenLines}

InitLimits ==
  /\ IdleModule
  /\ \/ args = [exists |-> FALSE, lines |-> <<>>, garbage |-> 0]
     \/ \E n \in 0..MaxLimitLines, closing \in ClosingBlocks, g \in {0, 7} :
          \E head \in [1..n -> LimitLineChoices] :
            args = [exists |-> TRUE, lines |-> head \o closing, garbage |-> g]
  /\ frame = <<>>
  /\ at = "entry"

\* the file cannot be opened
LimitsFileMissing ==
  /\ at = "entry"
  /\ ~args.exists
  /\ frame' = [err |-> "limits file does not exist", limits |-> <<>>]
  /\ at' = "runtime_error"
  /\ UNCHANGED args
  /\ UNCHANGED varsModule

\* read_limits throws on a line, or on a family that is missing
ReadLimitsThrows ==
  /\ at = "entry"
  /\ args.exists
  /\ read_limits(args.lines, args.garbage).err # "none"
  /\ frame' = read_limits(args.lines, args.garbage)
  /\ at' = "runtime_error"
  /\ UNCHANGED args
  /\ UNCHANGED varsModule

\* read_limits returns
ReadLimitsReturns ==
  /\ at = "entry"
  /\ args.exists
  /\ read_limits(args.lines, args.garbage).err = "none"
  /\ frame' = read_limits(args.lines, args.garbage)
  /\ at' = "returned"
  /\ UNCHANGED args
  /\ UNCHANGED varsModule

NextLimits == LimitsFileMissing \/ ReadLimitsThrows \/ ReadLimitsReturns

SpecLimits == InitLimits /\ [][NextLimits]_vars

\* a line that is no comment and not empty is well formed when it has a
\* family, an instruction and a number
WellFormedLimitLine(line) ==
  is_limit_line(line) =>
    /\ Len(line.tokens) = 3
    /\ IsNumber(line.tokens[3])

\* C11 (as claimed): read_limits returns without an error only if every
\* line that is no comment and not empty has its instruction and its numeric
\* value, names a known family and one of warn, error, ignore, and every
\* required family is given.
C11_MalformedLimitsRejected ==
  at = "returned" =>
    /\ \A k \in 1..Len(args.lines) :
         /\ WellFormedLimitLine(args.lines[k])
         /\ is_limit_line(args.lines[k]) =>
              /\ IsValueToCheck(args.lines[k].tokens[1])
              /\ args.lines[k].tokens[2] \in Instructions
    /\ \A k \in 1..Len(values_to_check) :
         \E j \in 1..Len(args.lines) :
           /\ is_limit_line(args.lines[j])
           /\ args.lines[j].tokens[1] = values_to_check[k]

-----------------------------------------------------------------------------
(* FalcoConfig::read_adapters, and the two list loaders side by side *)

\* FalcoConfig::kmer_size, as the constructor sets it
kmer_size == 7

\* the characters of the tokens of an adapters or contaminants file
TokenChars ==
  ("Illumina" :> <<"I", "l", "l", "u", "m", "i", "n", "a">>)
    @@ ("ACGT" :> <<"A", "C", "G", "T">>)
    @@ ("ACNT" :> <<"A", "C", "N", "T">>)
    @@ ("ACGTACGTN" :> <<"A", "C", "G", "T", "A", "C", "G", "T", "N">>)

\* c != 'A' && c != 'C' && c != 'T' && c != 'G' is false
IsACTG(c) == c \in {"A", "C", "T", "G"}

\* actg_to_2bit, defined outside the two source files: bits 1 and 2 of the
\* character code
actg_to_2bit(c) ==
  CASE c = "A" -> 0 [] c = "C" -> 1 [] c = "T" -> 2 [] c = "G" -> 3

\* adapter_seq.substr(0, kmer_size) when the sequence is longer
Truncated(seq) ==
  IF Len(seq) > kmer_size THEN SubSeq(seq, 1, kmer_size) ELSE seq

\* the loop over the characters of adapter_seq: the hash, or the exception
RECURSIVE AdapterHash(_, _, _)
AdapterHash(adapter_seq, i, adapter_hash) ==
  IF i > Len(adapter_seq) THEN [err |-> "none", hash |-> adapter_hash]
  ELSE IF ~IsACTG(adapter_seq[i])
  THEN [err |-> "Bad adapter (non-ATGC characters)", hash |-> adapter_hash]
  ELSE AdapterHash(adapter_seq, i + 1,
                   adapter_hash * 4 + actg_to_2bit(adapter_seq[i]))

\* the body of the getline loop of read_adapters on one line; st.err is the
\* exception thrown
AdapterLine(st, line) ==
  IF line.hash \/ Len(line.tokens) <= 1 THEN st
  ELSE LET adapter_name == NameOfTokens(line.tokens, 1)
           adapter_seq == Truncated(TokenChars[line.tokens[Len(line.tokens)]])
           h == AdapterHash(adapter_seq, 1, 0)
       IN IF h.err # "none" THEN [st EXCEPT !.err = h.err]
          ELSE [st EXCEPT !.list = Append(@, <<adapter_name, h.hash>>)]

\* the getline loop of read_adapters from line k on
RECURSIVE AdapterLines(_, _, _)
AdapterLines(lines, k, st) ==
  IF k > Len(lines) \/ st.err # "none" THEN st
  ELSE AdapterLines(lines, k + 1, AdapterLine(st, lines[k]))

\* FalcoConfig::read_adapters on the lines of an existing file
read_adapters(lines) == AdapterLines(lines, 1, [err |-> "none", list |-> <<>>])

\* the getline loop of read_contaminants_file from line k on
RECURSIVE ContaminantLines(_, _, _)
ContaminantLines(lines, k, contaminants) ==
  IF k > Len(lines) THEN contaminants
  ELSE ContaminantLines(lines, k + 1, ReadLine(contaminants, lines[k]))

\* FalcoConfig::read_contaminants_file on the lines of an existing file
read_contaminants_file(lines) ==
  [err |-> "none", list |-> ContaminantLines(lines, 1, <<>>)]

\* the lines of the two files
SequenceFileLines ==
  {[hash |-> TRUE, tokens |-> <<>>]}
    \cup {[hash |-> FALSE, tokens |-> t] :
            t \in UNION {[1..n -> DOMAIN TokenChars] : n \in 0..2}}

InitSequenceLists ==
  /\ IdleModule
  /\ \E n \in 0..MaxLines, which \in {"adapters", "contaminants"} :
       \E lines \in [1..n -> SequenceFileLines] :
         args = [file |-> which, lines |-> lines]
  /\ frame = <<>>
  /\ at = "entry"

\* read_adapters runs to its end or to its exception
CallReadAdapters ==
  /\ at = "entry"
  /\ args.file = "adapters"
  /\ frame' = read_adapters(args.lines)
  /\ at' = IF read_adapters(args.lines).err = "none" THEN "returned"
           ELSE "runtime_error"
  /\ UNCHANGED args
  /\ UNCHANGED varsModule

\* read_contaminants_file runs to its end
CallReadContaminantsFile ==
  /\ at = "entry"
  /\ args.file = "contaminants"
  /\ frame' = read_contaminants_file(args.lines)
  /\ at' = "returned"
  /\ UNCHANGED args
  /\ UNCHANGED varsModule

NextSequenceLists == CallReadAdapters \/ CallReadContaminantsFile

SpecSequenceLists == InitSequenceLists /\ [][NextSequenceLists]_vars

\* the sequence tokens of a file: the last token of every line that defines
\* an entry
SequenceTokens(lines) ==
  {lines[k].tokens[Len(lines[k].tokens)] :
     k \in {j \in 1..Len(lines) : ~lines[j].hash /\ Len(lines[j].tokens) > 1}}

\* C12 (as claimed): a list is loaded without an error only if every
\* character of every sequence of its file is one of A, C, T, G.
C12_BadCharacterIsFatal ==
  at = "returned" =>
    \A t \in SequenceTokens(args.lines) :
      \A i \in 1..Len(TokenChars[t]) : IsACTG(TokenChars[t][i])

-----------------------------------------------------------------------------
(* Divisions by a zero count in summarize_module *)

\* a denominator of ModulePerTileSequenceQuality::summarize_module is zero:
\* a tile has no base at a position (stats.tile_position_count of the tile
\* at i), which includes the case of no base at the position in any tile
\* (position_counts[i])
TileZeroDenominator(st) ==
  \E t \in DOMAIN st.tile_position_count :
    \E i \in 1..Len(st.tile_position_count[t]) :
      st.tile_position_count[t][i] = 0

\* C14 (as claimed): a summarize call on a snapshot with a zero denominator
\* never completes; when a summarize call of the per-tile module has
\* returned without an error, no denominator of its snapshot was zero.
C14_ZeroDenominatorIsFatal ==
  (kind = "ModulePerTileSequenceQuality" /\ call = "summarize"
     /\ pc = "idle" /\ err = "none" /\ summarized)
    => ~TileZeroDenominator(stats)

-----------------------------------------------------------------------------
(* The histogram and the base count of a position-group *)

\* the bases of quality j at the positions grp.start .. grp.end: the sum of
\* the per-position counters summarize_module reads
GroupHistogram(st, grp, j) ==
  LET RECURSIVE S(_)
      S(i) == IF i > grp.end THEN 0
              ELSE (IF i < kNumBases THEN position_quality_count(st, i, j) ELSE 0)
                     + S(i + 1)
  IN S(grp.start)

\* the bases at the positions grp.start .. grp.end
GroupBases(st, grp) ==
  LET RECURSIVE S(_)
      S(i) == IF i > grp.end THEN 0
              ELSE (IF i < kNumBases THEN cumulative_read_length_freq(st, i) ELSE 0)
                     + S(i + 1)
  IN S(grp.start)

\* the qualities some read of the snapshot carries
QualitiesOf(st) ==
  {st.reads[k].q_head : k \in 1..Len(st.reads)}
    \cup {st.reads[k].q_tail : k \in 1..Len(st.reads)}

\* what the position loop of summarize_module leaves for group grp
GroupAccumulated(st, grp) ==
  GroupPositions(st, grp.start, grp.end,
                 [histogram |-> [j \in 0..(kNumQualityValues - 1) |-> 0],
                  bases_in_group |-> 0])

\* C15 (as claimed): for every group summarize_module has filled, the
\* histogram the quantiles are taken from is the sum of the per-position
\* histograms of the positions of the group, and the base count is the sum
\* of the base counts of those positions.
C15_GroupHistogramIsSum ==
  at \in {"group_loop", "returned"} =>
    \A g \in 1..Len(frame.groups) :
      /\ frame.groups[g].bases_in_group = GroupBases(args, frame.base_groups[g])
      /\ \A j \in QualitiesOf(args) :
           GroupAccumulated(args, frame.base_groups[g]).histogram[j]
             = GroupHistogram(args, frame.base_groups[g], j)

\* the least quality j at which the cumulative count of the histogram of the
\* group reaches (thresh[1] / thresh[2]) * N, N the bases of the group
GroupQuantile(st, grp, thresh) ==
  LET N == GroupBases(st, grp)
      RECURSIVE Cum(_, _)
      Cum(Q, j) ==
        IF Q = {} THEN 0
        ELSE LET q == CHOOSE x \in Q : TRUE
             IN (IF q <= j THEN GroupHistogram(st, grp, q) ELSE 0)
                  + Cum(Q \ {q}, j)
      reached == {j \in QualitiesOf(st) :
                    Cum(QualitiesOf(st), j) * thresh[2] >= thresh[1] * N}
  IN CHOOSE j \in reached : \A r \in reached : j <= r

\* C16 (as claimed): for every filled group with N > 0 bases and every one
\* of the five quantiles, the reported value is the least quality at which
\* the cumulative count of the histogram of the group reaches p * N.
C16_QuantileOfGroupHistogram ==
  at \in {"group_loop", "returned"} =>
    \A g \in 1..Len(frame.groups) :
      GroupBases(args, frame.base_groups[g]) > 0 =>
        \A q \in DOMAIN QuantileThresh :
          frame.groups[g][q]
            = GroupQuantile(args, frame.base_groups[g], QuantileThresh[q])

-----------------------------------------------------------------------------
(* ModulePerBaseSequenceQuality::make_grade *)

\* group g of the summary is below an error threshold
QualityGroupErrs(g) ==
  \/ frame.groups[g].lquartile < frame.limits.base_lower_error
  \/ frame.groups[g].median < frame.limits.base_median_error

\* group g of the summary is below a warn threshold and no error threshold
QualityGroupWarns(g) ==
  /\ ~QualityGroupErrs(g)
  /\ \/ frame.groups[g].lquartile < frame.limits.base_lower_warn
     \/ frame.groups[g].median < frame.limits.base_median_warn

\* the grade rule of the claim, for a module that held grade_in on entry
QualityGradeRule ==
  frame.graded.grade =
    IF frame.grade_in = "fail" \/ \E g \in 1..Len(frame.groups) : QualityGroupErrs(g)
    THEN "fail"
    ELSE IF frame.grade_in = "warn"
              \/ \E g \in 1..Len(frame.groups) : QualityGroupWarns(g)
    THEN "warn"
    ELSE "pass"

-----------------------------------------------------------------------------
(* make_base_groups taken on its own *)

\* every read length up to MaxGroupBases is tried
MaxGroupBases == 80

\* read lengths around and beyond the lengths at which the interval widens
LongLengths == {200, 201, 300, 301, 1000, 1001, 2000, 2001, 2600}

InitBaseGroups ==
  /\ IdleModule
  /\ \E num_bases \in (1..MaxGroupBases) \cup LongLengths :
       args = [num_bases |-> num_bases]
  /\ frame = <<>>
  /\ at = "entry"

\* make_base_groups(base_groups, num_bases) runs to its end
CallMakeBaseGroups ==
  /\ at = "entry"
  /\ frame' = make_base_groups(args.num_bases)
  /\ at' = "returned"
  /\ UNCHANGED args
  /\ UNCHANGED varsModule

NextBaseGroups == CallMakeBaseGroups

SpecBaseGroups == InitBaseGroups /\ [][NextBaseGroups]_vars

\* the width the claim gives to the group that starts at position start
\* (0-based; positions 1..9 of the claim are the starts 0..8)
ClaimedWidth(start) ==
  IF start < 9 THEN 1
  ELSE IF start < 49 THEN 5
  ELSE IF start < 99 THEN 10
  ELSE IF start < 499 THEN 50
  ELSE IF start < 999 THEN 100
  ELSE 500

\* C18 (as claimed): for every num_bases, every group make_base_groups
\* returns, the last one (which the read length may cut short) excepted, has
\* the width the claim gives to its starting position.
C18_GroupWidths ==
  at = "returned" =>
    \A g \in 1..(Len(frame) - 1) :
      frame[g].end - frame[g].start + 1 = ClaimedWidth(frame[g].start)

-----------------------------------------------------------------------------
(* sum_deviation_from_normal, up to the standard deviation *)

\* bins of the GC histogram that hold reads in the histograms tried
MaxWindow == 3

\* the number of bins of the GC histogram
num_gc_bins == 101

SumSet(B) ==
  LET RECURSIVE S(_)
      S(X) == IF X = {} THEN 0
              ELSE LET x == CHOOSE y \in X : TRUE IN x + S(X \ {x})
  IN S(B)

\* the first loop: the largest count (0.0 if no bin is above it), the first
\* bin that holds it, and the sum of the counts
mode_count(gc_count) ==
  LET counts == {gc_count[i] : i \in DOMAIN gc_count}
  IN CHOOSE m \in counts : \A c \in counts : c <= m

first_mode(gc_count) ==
  LET m == mode_count(gc_count)
      modal == {i \in DOMAIN gc_count : gc_count[i] = m}
  IN IF m = 0 THEN 0 ELSE CHOOSE i \in modal : \A k \in modal : i <= k

total_count(gc_count) ==
  LET filled == {i \in DOMAIN gc_count : gc_count[i] > 0}
      RECURSIVE S(_)
      S(B) == IF B = {} THEN 0
              ELSE LET b == CHOOSE x \in B : TRUE IN gc_count[b] + S(B \ {b})
  IN S(filled)

\* gc_count[i] > gc_count[first_mode] - (gc_count[first_mode]/10.0)
StaysNearMode(gc_count, fm, i) ==
  gc_count[i] * 10 > gc_count[fm] * 10 - gc_count[fm]

\* the bin at which the upward loop from first_mode breaks, num_gc_bins if
\* it runs to the end (fell_off_top stays true)
TopBreak(gc_count, fm) ==
  LET breaks == {i \in fm..(num_gc_bins - 1) : ~StaysNearMode(gc_count, fm, i)}
  IN IF breaks = {} THEN num_gc_bins
     ELSE CHOOSE b \in breaks : \A c \in breaks : b <= c

\* the bin at which the downward loop from first_mode - 1 breaks, -1 if it
\* runs to the end (fell_off_bottom stays true)
BottomBreak(gc_count, fm) ==
  LET breaks == {i \in 0..(fm - 1) : ~StaysNearMode(gc_count, fm, i)}
  IN IF breaks = {} THEN -1
     ELSE CHOOSE b \in breaks : \A c \in breaks : b >= c

\* mode after the two loops and the test of fell_off_bottom || fell_off_top
ModeIgnoringTop(gc_count) ==
  LET fm == first_mode(gc_count)
      top == TopBreak(gc_count, fm)
      bottom == BottomBreak(gc_count, fm)
      fell_off_bottom == bottom = -1
  IN IF fell_off_bottom THEN IntD(fm)
     ELSE DivNat(SumSet((bottom + 1)..(top - 1)), top - 1 - bottom)

Mode(gc_count) ==
  LET fm == first_mode(gc_count)
      top == TopBreak(gc_count, fm)
      bottom == BottomBreak(gc_count, fm)
      fell_off_top == top = num_gc_bins
      fell_off_bottom == bottom = -1
  IN IF fell_off_bottom \/ fell_off_top THEN IntD(fm)
     ELSE DivNat(SumSet((bottom + 1)..(top - 1)), top - 1 - bottom)

\* stdev after the loop over the bins: the sum of (i - mode)^2 gc_count[i],
\* as a fraction over mode.den^2 (the bins without reads add 0)
SquaredDeviations(gc_count, mode) ==
  LET filled == {i \in DOMAIN gc_count : gc_count[i] > 0}
      RECURSIVE S(_)
      S(B) == IF B = {} THEN 0
              ELSE LET b == CHOOSE x \in B : TRUE
                   IN (b * mode.den - mode.num) * (b * mode.den - mode.num)
                        * gc_count[b] + S(B \ {b})
  IN Fin(S(filled), mode.den * mode.den)

\* stdev = stdev / (total_count - 1), before the square root
StdevSquaredPopulation(gc_count, mode) ==
  LET sq == SquaredDeviations(gc_count, mode)
      n == total_count(gc_count)
  IN IF n = 0 THEN (IF sq.num = 0 THEN NaN ELSE PInf)
     ELSE Fin(sq.num, sq.den * n)

StdevSquared(gc_count, mode) ==
  LET sq == SquaredDeviations(gc_count, mode)
      n == total_count(gc_count) - 1
  IN IF n = 0 THEN (IF sq.num = 0 THEN NaN ELSE PInf)
     ELSE IF n < 0 THEN Fin(-sq.num, sq.den * (-n))
     ELSE Fin(sq.num, sq.den * n)

\* the counts of the bins that hold reads
GcCountChoices == {0, 1, 18, 19, 20}

\* where the bins that hold reads start: at either end of the histogram,
\* next to either end, or in the middle
GcOffsets == {0, 1, 49, num_gc_bins - MaxWindow - 1, num_gc_bins - MaxWindow}

InitDeviation ==
  /\ IdleModule
  /\ \E o \in GcOffsets, w \in [1..MaxWindow -> GcCountChoices] :
       args = [gc_count |->
                 [i \in 0..(num_gc_bins - 1) |->
                    IF i >= o /\ i < o + MaxWindow THEN w[i - o + 1] ELSE 0]]
  /\ frame = <<>>
  /\ at = "entry"

\* sum_deviation_from_normal runs up to the square root
CallSumDeviation ==
  /\ at = "entry"
  /\ LET mode == Mode(args.gc_count)
     IN frame' = [first_mode |-> first_mode(args.gc_count),
                  total_count |-> total_count(args.gc_count),
                  mode |-> mode,
                  stdev_squared |-> StdevSquared(args.gc_count, mode)]
  /\ at' = "stdev"
  /\ UNCHANGED args
  /\ UNCHANGED varsModule

NextDeviation == CallSumDeviation

SpecDeviation == InitDeviation /\ [][NextDeviation]_vars

\* the first bin that holds the largest count of the histogram
GcFirstPeakBin(gc) ==
  CHOOSE i \in 0..100 :
    /\ \A k \in 0..100 : gc[k] <= gc[i]
    /\ \A k \in 0..(i - 1) : gc[k] < gc[i]

\* the contiguous run of bins around bin peak whose counts are above 90% of
\* the count of bin peak
GcRun(gc, peak) ==
  LET above == {i \in 0..100 : 10 * gc[i] > 9 * gc[peak]}
  IN {i \in above :
        \A k \in 0..100 :
          ((i <= k /\ k <= peak) \/ (peak <= k /\ k <= i)) => k \in above}

\* the run is stopped on both sides by a bin inside 0..100
GcRunStopped(run, peak) ==
  /\ \E b \in 0..(peak - 1) : b \notin run
  /\ \E b \in (peak + 1)..100 : b \notin run

GcSquares(gc, centroid) ==
  LET RECURSIVE S(_)
      S(B) == IF B = {} THEN 0
              ELSE LET b == CHOOSE x \in B : TRUE
                   IN (b * centroid.den - centroid.num)
                        * (b * centroid.den - centroid.num) * gc[b]
                        + S(B \ {b})
  IN S({i \in 0..100 : gc[i] > 0})

\* C20 (amended): the square of the spread is the sum over the bins of
\* (i - centroid)^2 * gc_count[i] divided by the total read count minus
\* one (the sample variance); with a single read the quotient is 0/0 and
\* the spread is not a number.
C20_SampleVariance ==
  at = "stdev" =>
    /\ frame.total_count > 1 =>
         /\ frame.stdev_squared.cls = "fin"
         /\ frame.stdev_squared.num * frame.mode.den * frame.mode.den
              * (frame.total_count - 1)
              = GcSquares(args.gc_count, frame.mode) * frame.stdev_squared.den
    /\ frame.total_count = 1 => frame.stdev_squared.cls = "nan"

\* C20 witness: several reads spread over more than one bin
C20_Witness ==
  /\ at = "stdev"
  /\ frame.total_count > 1
  /\ GcSquares(args.gc_count, frame.mode) > 0
  /\ frame.stdev_squared.cls = "fin"

\* C20 (as claimed): the square of the spread is the sum over the bins of
\* (i - centroid)^2 * gc_count[i] divided by the total read count (here for
\* histograms of more than one read).
C20_PopulationVariance ==
  (at = "stdev" /\ frame.total_count > 1) =>
    /\ frame.stdev_squared.cls = "fin"
    /\ frame.stdev_squared.num * frame.mode.den * frame.mode.den
         * frame.total_count
         = GcSquares(args.gc_count, frame.mode) * frame.stdev_squared.den

-----------------------------------------------------------------------------
(* ModulePerBaseNContent::summarize_module on reads longer than kNumBases *)

\* positions of the long reads beyond the dense-storage limit
MaxLongPos == 2

\* the reads of the snapshots: short or longer than kNumBases, without N,
\* with N as last base, or all N
NReadChoices ==
  [len : {2} \cup {kNumBases + k : k \in 1..MaxLongPos},
   n : {"none", "last", "all"}]

\* read r has N at position i (0-based)
HasN(r, i) ==
  i < r.len /\ (r.n = "all" \/ (r.n = "last" /\ i = r.len - 1))

\* the N count and the base count of position i in a snapshot accumulated
\* from reads
NCountAt(reads, i) == Cardinality({k \in 1..Len(reads) : HasN(reads[k], i)})
BasesAt(reads, i) == Cardinality({k \in 1..Len(reads) : reads[k].len > i})

\* the FastqStats counters after reads: the dense arrays hold the positions
\* below kNumBases, the long vectors the positions from kNumBases on
NContentStats(reads, beyond) ==
  LET n == MaxLen(reads)
      dense == IF n < kNumBases THEN n ELSE kNumBases
      long == IF n > kNumBases THEN n - kNumBases ELSE 0
  IN [max_read_length |-> n,
      n_base_count |-> [p \in 1..dense |-> NCountAt(reads, p - 1)],
      cumulative_read_length_freq |-> [p \in 1..dense |-> BasesAt(reads, p - 1)],
      long_n_base_count |->
        [p \in 1..long |-> NCountAt(reads, kNumBases + p - 1)],
      long_cumulative_read_length_freq |->
        [p \in 1..long |-> BasesAt(reads, kNumBases + p - 1)],
      out_of_range |-> beyond]

InitNContent ==
  /\ IdleModule
  /\ \E n \in 1..MaxReads, beyond \in {0, 7} :
       \E reads \in [1..n -> NReadChoices] :
         args = [reads |-> reads, stats |-> NContentStats(reads, beyond)]
  /\ frame = <<>>
  /\ at = "entry"

\* summarize_module(stats) runs to its end
CallNContentSummarize ==
  /\ at = "entry"
  /\ frame' = NContentSummarize(NContentConstructed, args.stats)
  /\ at' = "returned"
  /\ UNCHANGED args
  /\ UNCHANGED varsModule

NextNContent == CallNContentSummarize

SpecNContent == InitNContent /\ [][NextNContent]_vars

\* C21 (as claimed): for every position i < max_read_length, below and
\* beyond kNumBases, n_pct[i] is 100 * (N count at i) / (bases at i).
C21_NPercentSamePosition ==
  at = "returned" =>
    \A i \in 0..(args.stats.max_read_length - 1) :
      frame.n_pct[i + 1]
        = DivNat(100 * NCountAt(args.reads, i), BasesAt(args.reads, i))

-----------------------------------------------------------------------------
(* ModuleSequenceLengthDistribution *)

\* the read lengths of the snapshots: empty, short, longer than kNumBases
LengthChoices == <<0, 1, 2, kNumBases + 1>>

\* the lengths of one to MaxStatReads reads (one order for each multiset)
LengthReadLengths ==
  UNION {{[k \in 1..n |-> LengthChoices[ix[k]]] :
            ix \in {f \in [1..n -> 1..Len(LengthChoices)] :
                      \A k \in 1..(n - 1) : f[k] <= f[k + 1]}} :
         n \in 1..MaxStatReads}

\* FastqStats counters of a snapshot accumulated from reads of the lengths
\* lens: element i of read_length_freq counts the reads of length i + 1 up
\* to kNumBases, element i of long_read_length_freq those of length
\* kNumBases + i + 1; an empty read has no element
LengthSnapshot(lens) ==
  LET longest == CHOOSE m \in {lens[k] : k \in 1..Len(lens)} :
                   \A k \in 1..Len(lens) : lens[k] <= m
      shortest == CHOOSE m \in {lens[k] : k \in 1..Len(lens)} :
                    \A k \in 1..Len(lens) : lens[k] >= m
      dense == IF longest < kNumBases THEN longest ELSE kNumBases
      long == IF longest > kNumBases THEN longest - kNumBases ELSE 0
  IN [min_read_length |-> shortest,
      max_read_length |-> longest,
      read_length_freq |->
        [p \in 1..dense |-> Cardinality({k \in 1..Len(lens) : lens[k] = p})],
      long_read_length_freq |->
        [p \in 1..long |->
           Cardinality({k \in 1..Len(lens) : lens[k] = kNumBases + p})]]

\* sequence_lengths[i] as the loop of summarize_module fills it
SequenceLengthAt(st, i) ==
  IF i < kNumBases THEN At(st.read_length_freq, i)
  ELSE At(st.long_read_length_freq, i - kNumBases)

\* ModuleSequenceLengthDistribution::summarize_module
LengthSummarize(st) ==
  LET num_nonzero ==
        Cardinality({i \in 0..(st.max_read_length - 1) :
                       SequenceLengthAt(st, i) > 0})
  IN [max_read_length |-> st.max_read_length,
      has_empty_read |-> st.min_read_length = 0,
      is_all_same_length |-> ~(num_nonzero > 1)]

\* ModuleSequenceLengthDistribution::make_grade on grade g
LengthMakeGradeWarnLast(g, sm, do_grade_warn, do_grade_error) ==
  LET g1 == IF do_grade_error /\ sm.has_empty_read THEN "fail" ELSE g
  IN IF do_grade_warn /\ ~sm.is_all_same_length THEN "warn" ELSE g1

LengthMakeGrade(g, sm, do_grade_warn, do_grade_error) ==
  LET g1 == IF do_grade_warn /\ ~sm.is_all_same_length THEN "warn" ELSE g
  IN IF do_grade_error /\ sm.has_empty_read THEN "fail" ELSE g1

\* the module is constructed on limits["sequence_length"] and holds grade
\* "pass"
InitLength ==
  /\ IdleModule
  /\ \E lens \in LengthReadLengths, warn \in {0, 1}, error \in {0, 1} :
       args = [stats |-> LengthSnapshot(lens), warn |-> warn, error |-> error,
               do_grade_warn |-> warn # 0, do_grade_error |-> error # 0]
  /\ frame = [grade |-> "pass"]
  /\ at = "summarize_module"

LengthSummarizeModule ==
  /\ at = "summarize_module"
  /\ frame' = [grade |-> frame.grade, summary |-> LengthSummarize(args.stats)]
  /\ at' = "make_grade"
  /\ UNCHANGED args
  /\ UNCHANGED varsModule

LengthGrade ==
  /\ at = "make_grade"
  /\ frame' = [frame EXCEPT !.grade =
                 LengthMakeGrade(@, frame.summary, args.do_grade_warn,
                                 args.do_grade_error)]
  /\ at' = "graded"
  /\ UNCHANGED args
  /\ UNCHANGED varsModule

NextLength == LengthSummarizeModule \/ LengthGrade

SpecLength == InitLength /\ [][NextLength]_vars

\* the lengths with a nonzero counter in the snapshot
NonzeroLengths(st) ==
  {i \in 0..(st.max_read_length - 1) : SequenceLengthAt(st, i) > 0}

\* C22: the grade is fail exactly when the error value is nonzero and
\* min_read_length is 0; otherwise warn exactly when the warn value is
\* nonzero and more than one length has a nonzero counter; otherwise pass.
C22_LengthGrade ==
  at = "graded" =>
    frame.grade =
      IF args.error # 0 /\ args.stats.min_read_length = 0 THEN "fail"
      ELSE IF args.warn # 0 /\ Cardinality(NonzeroLengths(args.stats)) > 1
      THEN "warn"
      ELSE "pass"

\* C22 witness: a snapshot with an empty read and two other lengths is
\* graded fail with both checks enabled
C22_Witness ==
  /\ at = "graded"
  /\ args.error # 0 /\ args.warn # 0
  /\ args.stats.min_read_length = 0
  /\ Cardinality(NonzeroLengths(args.stats)) > 1
  /\ frame.grade = "fail"

-----------------------------------------------------------------------------
(* ModuleAdapterContent::summarize_module *)

\* k-mer positions of the longest reads of the snapshots
MaxKmerPos == 2

\* FastqStats::kBitShiftKmer, two bits for each base of a k-mer (declared
\* outside the two source files)
kBitShiftKmer == 14

\* config.adapters: name and 2-bit signature of each adapter
Adapters == <<<<"Illumina ", 5>>, <<"Nextera ", 9>>>>

\* the k-mers of the reads: the two adapter signatures and another k-mer
KmerIds == {5, 9, 3}

\* (i << FastqStats::kBitShiftKmer) | adapter_sevenmer, for a signature below
\* 2^kBitShiftKmer
kmer_pos_index(i, sevenmer) == i * (2 ^ kBitShiftKmer) + sevenmer

\* a read is the sequence of its k-mers, from its first base on
KmerReads == UNION {[1..n -> KmerIds] : n \in 1..MaxKmerPos}

\* the k-mer of read that ends at position i (0-based), -1 if there is none:
\* the first k-mer of a read ends at position kmer_size - 1, the position the
\* k-mer loops of ModuleKmerContent start from
KmerEndingAt(read, i) ==
  IF i >= kmer_size - 1 /\ i - (kmer_size - 1) < Len(read)
  THEN read[i - (kmer_size - 1) + 1]
  ELSE -1

\* the FastqStats counters after reads: kmer_count counts the reads with
\* k-mer k at position i, pos_kmer_count the reads with a k-mer at position
\* i; a read of n k-mers has n + kmer_size - 1 bases
AdapterStats(reads) ==
  LET longest == CHOOSE m \in {Len(reads[r]) : r \in 1..Len(reads)} :
                   \A r \in 1..Len(reads) : Len(reads[r]) <= m
      max_read_length == longest + kmer_size - 1
      indices == {<<i, k>> : i \in 0..(max_read_length - 1), k \in KmerIds}
  IN [max_read_length |-> max_read_length,
      kmer_count |->
        [x \in {kmer_pos_index(ik[1], ik[2]) : ik \in indices} |->
           LET ik == CHOOSE y \in indices : kmer_pos_index(y[1], y[2]) = x
           IN Cardinality({r \in 1..Len(reads) :
                             KmerEndingAt(reads[r], ik[1]) = ik[2]})],
      pos_kmer_count |->
        [p \in 1..max_read_length |->
           Cardinality({r \in 1..Len(reads) :
                          KmerEndingAt(reads[r], p - 1) # -1})]]

\* kmer_count[index] of the zero-initialised table
KmerCountAt(st, index) ==
  IF index \in DOMAIN st.kmer_count THEN st.kmer_count[index] ELSE 0

\* num_bases_counted after the test against stats.max_read_length
NumBasesCounted(st, num_bases_counted) ==
  IF st.max_read_length < num_bases_counted THEN st.max_read_length
  ELSE num_bases_counted

\* the first loop: kmer_by_base[i] is the copy of kmer_by_base[i-1] (zeros
\* at i = 0) plus kmer_count at position i, for each adapter
KmerByBaseNotCumulative(st, i) ==
  [a \in 1..Len(Adapters) |->
     0 + KmerCountAt(st, kmer_pos_index(i, Adapters[a][2]))]

RECURSIVE KmerByBaseCumulative(_, _)
KmerByBaseCumulative(st, i) ==
  [a \in 1..Len(Adapters) |->
     (IF i = 0 THEN 0 ELSE KmerByBaseCumulative(st, i - 1)[a])
       + KmerCountAt(st, kmer_pos_index(i, Adapters[a][2]))]

\* the second loop on position i
KmerPercent(st, i, counts) ==
  [a \in 1..Len(Adapters) |->
     IF At(st.pos_kmer_count, i) > 0
     THEN DivNat(counts[a] * 100, At(st.pos_kmer_count, i))
     ELSE IntD(0)]

InitAdapterContent ==
  /\ IdleModule
  /\ \E n \in 1..MaxReads :
       \E reads \in {f \in [1..n -> KmerReads] :
                       \A k \in 1..(n - 1) : Len(f[k]) <= Len(f[k + 1])} :
         args = [reads |-> reads, stats |-> AdapterStats(reads)]
  /\ frame = [num_bases_counted |-> kNumBases]
  /\ at = "entry"

\* the statements up to the end of the first loop
AdapterCumulate ==
  /\ at = "entry"
  /\ LET n == NumBasesCounted(args.stats, frame.num_bases_counted)
     IN frame' = [num_bases_counted |-> n,
                  kmer_by_base |->
                    [p \in 1..n |-> KmerByBaseCumulative(args.stats, p - 1)]]
  /\ at' = "cumulated"
  /\ UNCHANGED args
  /\ UNCHANGED varsModule

\* the second loop; summarize_module returns
AdapterPercent ==
  /\ at = "cumulated"
  /\ frame' = [frame EXCEPT !.kmer_by_base =
                 [p \in 1..frame.num_bases_counted |->
                    KmerPercent(args.stats, p - 1, frame.kmer_by_base[p])]]
  /\ at' = "returned"
  /\ UNCHANGED args
  /\ UNCHANGED varsModule

NextAdapterContent == AdapterCumulate \/ AdapterPercent

SpecAdapterContent == InitAdapterContent /\ [][NextAdapterContent]_vars

\* the reads with the k-mer of signature sig at a position j <= i, each
\* occurrence counted
OccurrencesUpTo(reads, sig, i) ==
  LET RECURSIVE S(_)
      S(j) == IF j > i THEN 0
              ELSE Cardinality({r \in 1..Len(reads) :
                                  KmerEndingAt(reads[r], j) = sig})
                     + S(j + 1)
  IN S(0)

\* the reads with a k-mer at position i
KmersAt(reads, i) ==
  Cardinality({r \in 1..Len(reads) : KmerEndingAt(reads[r], i) # -1})

\* C23: for every adapter a and position i < num_bases_counted the value
\* reported is 100 * (sum over j <= i of the count of a's signature at j) /
\* pos_kmer_count[i], and 0 when pos_kmer_count[i] is 0; before the
\* conversion the cumulative count of each adapter does not decrease with
\* the position.
C23_AdapterPercentages ==
  /\ at = "returned" =>
       \A a \in 1..Len(Adapters) :
         \A i \in 0..(frame.num_bases_counted - 1) :
           frame.kmer_by_base[i + 1][a] =
             IF KmersAt(args.reads, i) = 0 THEN IntD(0)
             ELSE DivNat(100 * OccurrencesUpTo(args.reads, Adapters[a][2], i),
                         KmersAt(args.reads, i))
  /\ at = "cumulated" =>
       \A a \in 1..Len(Adapters) :
         \A i \in 1..(frame.num_bases_counted - 1) :
           frame.kmer_by_base[i][a] <= frame.kmer_by_base[i + 1][a]

\* C23 witness: an adapter found at the first k-mer position is still
\* reported at the next one, and the positions without k-mers report 0
C23_Witness ==
  /\ at = "returned"
  /\ frame.num_bases_counted = args.stats.max_read_length
  /\ \E a \in 1..Len(Adapters) :
       /\ KmerCountAt(args.stats, kmer_pos_index(kmer_size - 1, Adapters[a][2])) > 0
       /\ KmerCountAt(args.stats, kmer_pos_index(kmer_size, Adapters[a][2])) = 0
       /\ KmersAt(args.reads, kmer_size) > 0
       /\ DGt(frame.kmer_by_base[kmer_size + 1][a], IntD(0))
       /\ frame.kmer_by_base[1][a] = IntD(0)

\* C29 (as claimed): every value reported, for every adapter and every
\* position, is between 0 and 100.
C29_PercentagesWithinRange ==
  at = "returned" =>
    \A a \in 1..Len(Adapters) :
      \A i \in 1..frame.num_bases_counted :
        /\ DLeq(IntD(0), frame.kmer_by_base[i][a])
        /\ DLeq(frame.kmer_by_base[i][a], IntD(100))

-----------------------------------------------------------------------------
(* ModuleKmerContent::summarize_module *)

\* num_kmer_bases
NumKmerBases(st) ==
  IF st.max_read_length < kNumBases THEN st.max_read_length ELSE kNumBases

\* total_kmer_counts[kmer] after the first pair of loops
TotalKmerCount(st, kmer) ==
  LET RECURSIVE S(_)
      S(i) == IF i >= NumKmerBases(st) THEN 0
              ELSE KmerCountAt(st, kmer_pos_index(i, kmer)) + S(i + 1)
  IN S(kmer_size - 1)

\* num_seen_kmers: the k-mers with a nonzero total (a k-mer outside KmerIds
\* has no count in the snapshots)
NumSeenKmers(st) ==
  Cardinality({kmer \in KmerIds : TotalKmerCount(st, kmer) > 0})

\* expected_count in the iteration of k-mer kmer at position i
ExpectedCountFromTotal(st, kmer, i) ==
  DivNat(TotalKmerCount(st, kmer), NumSeenKmers(st))

ExpectedCount(st, kmer, i) ==
  DivNat(At(st.pos_kmer_count, i), NumSeenKmers(st))

\* obs_exp_ratio = observed_count / expected_count
ObsExpRatio(observed_count, expected_count) ==
  IF expected_count.cls = "nan" THEN NaN
  ELSE IF expected_count.cls = "inf" THEN IntD(0)
  ELSE IF expected_count.num = 0
  THEN (IF observed_count = 0 THEN NaN ELSE PInf)
  ELSE Fin(observed_count * expected_count.den, expected_count.num)

\* the inner loop of the second pair of loops from position i on: acc holds
\* obs_exp_max[kmer] and where_obs_exp_is_max[kmer]
RECURSIVE KmerPositions(_, _, _, _)
KmerPositions(st, kmer, i, acc) ==
  IF i >= NumKmerBases(st) THEN acc
  ELSE LET obs_exp_ratio ==
             ObsExpRatio(KmerCountAt(st, kmer_pos_index(i, kmer)),
                         ExpectedCount(st, kmer, i))
       IN KmerPositions(st, kmer, i + 1,
            IF i = 0 \/ DGt(obs_exp_ratio, acc.obs_exp_max)
            THEN [obs_exp_max |-> obs_exp_ratio, where_obs_exp_is_max |-> i]
            ELSE acc)

InitKmerContent ==
  /\ IdleModule
  /\ \E n \in 1..MaxReads :
       \E reads \in {f \in [1..n -> KmerReads] :
                       \A k \in 1..(n - 1) : Len(f[k]) <= Len(f[k + 1])} :
         args = [reads |-> reads, stats |-> AdapterStats(reads)]
  /\ frame = <<>>
  /\ at = "entry"

\* the statements up to the end of the first pair of loops
KmerTotals ==
  /\ at = "entry"
  /\ frame' = [num_kmer_bases |-> NumKmerBases(args.stats),
               total_kmer_counts |->
                 [kmer \in KmerIds |-> TotalKmerCount(args.stats, kmer)],
               num_seen_kmers |-> NumSeenKmers(args.stats)]
  /\ at' = "totals"
  /\ UNCHANGED args
  /\ UNCHANGED varsModule

\* the second pair of loops; expected_count keeps, for each k-mer and each
\* position, the value the iteration computed
KmerRatios ==
  /\ at = "totals"
  /\ frame' = [num_kmer_bases |-> frame.num_kmer_bases,
               total_kmer_counts |-> frame.total_kmer_counts,
               num_seen_kmers |-> frame.num_seen_kmers,
               expected_count |->
                 [kmer \in KmerIds |->
                    [i \in (kmer_size - 1)..(frame.num_kmer_bases - 1) |->
                       ExpectedCount(args.stats, kmer, i)]],
               obs_exp |->
                 [kmer \in KmerIds |->
                    KmerPositions(args.stats, kmer, kmer_size - 1,
                                  [obs_exp_max |-> IntD(0),
                                   where_obs_exp_is_max |-> 0])]]
  /\ at' = "returned"
  /\ UNCHANGED args
  /\ UNCHANGED varsModule

NextKmerContent == KmerTotals \/ KmerRatios

SpecKmerContent == InitKmerContent /\ [][NextKmerContent]_vars

\* the occurrences of k-mer kmer in the reads, at every position
OccurrencesOf(reads, kmer) ==
  LET RECURSIVE S(_)
      S(r) == IF r > Len(reads) THEN 0
              ELSE Cardinality({p \in 1..Len(reads[r]) : reads[r][p] = kmer})
                     + S(r + 1)
  IN S(1)

\* C24 (amended): the expected count used for the ratio of a k-mer at a
\* position is the number of k-mers of any kind observed at that position
\* (pos_kmer_count) divided by the number of distinct k-mers observed
\* anywhere; it does not depend on the k-mer.
C24_ExpectedFromPosition ==
  at = "returned" =>
    \A kmer \in KmerIds :
      \A i \in (kmer_size - 1)..(frame.num_kmer_bases - 1) :
        frame.expected_count[kmer][i]
          = DivNat(KmersAt(args.reads, i),
                   Cardinality({k \in KmerIds : OccurrencesOf(args.reads, k) > 0}))

\* C24 witness: two k-mers are seen, one of them twice, and the expected
\* count at the first k-mer position is the same for both
C24_Witness ==
  /\ at = "returned"
  /\ \E k1, k2 \in KmerIds :
       /\ OccurrencesOf(args.reads, k1) = 2
       /\ OccurrencesOf(args.reads, k2) = 1
       /\ frame.expected_count[k1][kmer_size - 1]
            = frame.expected_count[k2][kmer_size - 1]
       /\ frame.expected_count[k1][kmer_size - 1].cls = "fin"

\* C24 (as claimed): the expected count of a k-mer at a position is the
\* total occurrences of the k-mer across all positions divided by the number
\* of distinct k-mers observed anywhere.
C24_ExpectedFromTotal ==
  at = "returned" =>
    \A kmer \in KmerIds :
      \A i \in (kmer_size - 1)..(frame.num_kmer_bases - 1) :
        frame.expected_count[kmer][i]
          = DivNat(OccurrencesOf(args.reads, kmer),
                   Cardinality({k \in KmerIds : OccurrencesOf(args.reads, k) > 0}))

-----------------------------------------------------------------------------
(* The groups of make_base_groups as a partition of the positions *)

\* C25 (as claimed): for every num_bases >= 1 the groups make_base_groups
\* returns partition the positions 0..num_bases-1: the first group starts at
\* 0, each group starts right after the end of the group before it, start <=
\* end in every group, and the last group ends at num_bases - 1.
C25_GroupsPartitionPositions ==
  at = "returned" =>
    /\ Len(frame) >= 1
    /\ frame[1].start = 0
    /\ \A g \in 1..(Len(frame) - 1) : frame[g + 1].start = frame[g].end + 1
    /\ \A g \in 1..Len(frame) : frame[g].start <= frame[g].end
    /\ frame[Len(frame)].end = args.num_bases - 1

-----------------------------------------------------------------------------
(* The quantile locals of summarize_module across groups *)

\* cur_ldecile .. cur_udecile as they are declared, before the first group
FreshQuantiles ==
  [ldecile |-> 0, lquartile |-> 0, median |-> 0, uquartile |-> 0,
   udecile |-> 0, bases_in_group |-> 0]

\* C26 (as claimed): the five quantiles reported for a group are determined
\* by the histogram and the base count of the group alone: the group just
\* filled holds what its iteration yields whatever the groups before it left
\* in the quantile locals, in particular what it yields on fresh locals.
C26_QuantilesOfGroupAlone ==
  (at = "group_loop" /\ Len(frame.groups) >= 1) =>
    LET g == Len(frame.groups)
        alone == QualityGroup(args, frame.base_groups[g], FreshQuantiles)
    IN \A q \in DOMAIN QuantileThresh : frame.groups[g][q] = alone[q]

-----------------------------------------------------------------------------
(* The thresholds the module constructors look up *)

\* the families the module constructors find in config.limits, each read
\* for its warn and its error value
ConstructorFamilies ==
  {"quality_base_lower", "quality_base_median", "tile", "quality_sequence",
   "sequence", "gc_sequence", "n_content", "sequence_length", "duplication",
   "overrepresented", "adapter", "kmer"}

\* C27 (as claimed): after read_limits has returned without an error, every
\* family a module constructor reads has a warn and an error value in
\* limits.
C27_ThresholdsDefined ==
  at = "returned" =>
    \A f \in ConstructorFamilies :
      /\ f \in DOMAIN frame.limits
      /\ "warn" \in DOMAIN frame.limits[f]
      /\ "error" \in DOMAIN frame.limits[f]

-----------------------------------------------------------------------------
(* FalcoConfig::setup *)

\* the most ignore lines that follow the thresholds in a limits file
MaxSetupLines == 2

\* the ignore lines of a limits file for the two families setup looks at
SetupIgnoreLines ==
  {[hash |-> FALSE, tokens |-> <<f, "ignore", v>>] :
     f \in {"adapter", "overrepresented"}, v \in {"0", "5"}}

\* an adapters or contaminants file: missing, empty, one entry, one entry
\* with a character that is no base
SetupSequenceFiles ==
  {[exists |-> FALSE, lines |-> <<>>],
   [exists |-> TRUE, lines |-> <<>>],
   [exists |-> TRUE,
    lines |-> <<[hash |-> FALSE, tokens |-> <<"Illumina", "ACGT">>]>>],
   [exists |-> TRUE,
    lines |-> <<[hash |-> FALSE, tokens |-> <<"Illumina", "ACNT">>]>>]}

\* if (limits["adapter"]["ignore"] == 0.0) read_adapters();
SetupReadsAdapters(limits) == IgnoreOf(limits, "adapter") = 0

\* if (limits["adapter"]["ignore"] == 0.0) read_contaminants_file();
SetupReadsContaminants(limits) == IgnoreOf(limits, "adapter") = 0

InitSetup ==
  /\ IdleModule
  /\ \E n \in 0..MaxSetupLines, families \in {Len(FamilyOrder) - 1, Len(FamilyOrder)},
        a \in SetupSequenceFiles, c \in SetupSequenceFiles :
       \E tail \in [1..n -> SetupIgnoreLines] :
         args = [lines |-> FamilyBlock(families, "warn", "5") \o tail,
                 garbage |-> 0, adapters_file |-> a, contaminants_file |-> c]
  /\ frame = <<>>
  /\ at = "entry"

\* read_limits(), first in setup
SetupReadLimits ==
  /\ at = "entry"
  /\ LET r == read_limits(args.lines, args.garbage)
     IN /\ frame' = [err |-> r.err, limits |-> r.limits,
                     do_overrepresented |->
                       IF r.err = "none" THEN r.flags["do_overrepresented"]
                       ELSE TRUE,
                     do_adapter |->
                       IF r.err = "none" THEN r.flags["do_adapter"] ELSE TRUE,
                     adapters_read |-> FALSE, adapters |-> <<>>,
                     contaminants_read |-> FALSE, contaminants |-> <<>>]
        /\ at' = IF r.err = "none" THEN "limits_read" ELSE "runtime_error"
  /\ UNCHANGED args
  /\ UNCHANGED varsModule

\* the first if of setup: read_adapters, its exceptions included
SetupAdapters ==
  /\ at = "limits_read"
  /\ IF ~SetupReadsAdapters(frame.limits)
     THEN /\ frame' = frame
          /\ at' = "adapters_done"
     ELSE IF ~args.adapters_file.exists
     THEN /\ frame' = [frame EXCEPT !.err = "adapter file not found"]
          /\ at' = "runtime_error"
     ELSE LET r == read_adapters(args.adapters_file.lines)
          IN /\ frame' = [frame EXCEPT !.err = r.err, !.adapters = r.list,
                                       !.adapters_read = (r.err = "none")]
             /\ at' = IF r.err = "none" THEN "adapters_done"
                      ELSE "runtime_error"
  /\ UNCHANGED args
  /\ UNCHANGED varsModule

\* the second if of setup: read_contaminants_file, then the return
SetupContaminants ==
  /\ at = "adapters_done"
  /\ IF ~SetupReadsContaminants(frame.limits)
     THEN /\ frame' = frame
          /\ at' = "returned"
     ELSE IF ~args.contaminants_file.exists
     THEN /\ frame' = [frame EXCEPT !.err = "contaminants file not found"]
          /\ at' = "runtime_error"
     ELSE LET r == read_contaminants_file(args.contaminants_file.lines)
          IN /\ frame' = [frame EXCEPT !.contaminants = r.list,
                                       !.contaminants_read = TRUE]
             /\ at' = "returned"
  /\ UNCHANGED args
  /\ UNCHANGED varsModule

NextSetup == SetupReadLimits \/ SetupAdapters \/ SetupContaminants

SpecSetup == InitSetup /\ [][NextSetup]_vars

\* C28 (as claimed): when setup has returned, the contaminant list was
\* loaded if the overrepresented family is not ignored, whatever the
\* adapter family's ignore value, and the adapter list was loaded exactly
\* when the adapter family is not ignored.
C28_ListsLoadedForTheirFamily ==
  at = "returned" =>
    /\ frame.do_overrepresented => frame.contaminants_read
    /\ frame.adapters_read <=> frame.do_adapter

====
